---------------------------- MODULE Spec2Model ----------------------------
(***************************************************************************)
(* Knowledge-graph ingestion of Archon: one parse job, from the API that   *)
(* starts it (knowledge_graph_api.py) through the orchestrator             *)
(* KnowledgeGraphService.parse_repository (knowledge_graph_service.py).    *)
(*                                                                         *)
(* The job runs as one asyncio task.  The task runs without interruption   *)
(* from one suspension point to the next; the suspension points are the    *)
(* awaits that reach the event loop: asyncio.sleep and the progress emits. *)
(* The store client is synchronous, so store calls do not suspend.  A      *)
(* cancel request can only be served while the task is suspended, and      *)
(* task.cancel() makes the awaited call raise CancelledError when the task *)
(* is resumed.  CancelledError is a BaseException: "except Exception"      *)
(* does not catch it.                                                      *)
(***************************************************************************)
EXTENDS Integers, Sequences, FiniteSets, TLC

\* ------------------------------------------------------------------ bounds
MaxFiles == 6
MaxCancels == 1
MaxNodesPerFile == 27
MaxStoreFailures == 1
MaxParseFailures == 1
MaxSocketTests == 1

\* ------------------------------------------------------- program constants
ProgressEvery == 5
StreamBatchSize == 25
\* "if additional_relationships:" the edges go to the sink in batches of 50
BuilderBatchSize == 50

\* line_start and line_end left unset
None == 0

CancelledByUser == "Parsing was cancelled by user"
OperationCancelled == "Operation was cancelled by user"
StorageFailed == "Storage failed"

VARIABLES
    pc,                       \* position of the background task
    task,                     \* asyncio task: "none", "pending", "done", "cancelled"
    must_cancel,              \* task.cancel() was called, CancelledError not yet raised
    active_parsing_tasks,     \* registry of the API module (set of parsing ids)
    svc_active_parsing_tasks, \* KnowledgeGraphService.active_parsing_tasks (set of source ids)
    source,                   \* the archon_kg_sources row of the job
    events,                   \* progress channel of the parsing id, oldest first
    temp_dir_exists,          \* the directory made by tempfile.mkdtemp exists
    cloned_temp_dir,          \* parse_repository's local cloned_temp_dir is set
    total_files,
    file_idx,                 \* files of file_contents the loop has taken
    processed_files,
    total_nodes_created,
    total_relationships_created,
    failed_files,             \* sequence of [file_path, error]
    stored_nodes,             \* rows archon_kg_nodes accepted
    stored_relationships,     \* rows archon_kg_relationships accepted
    store_failures,           \* number of batch inserts that failed so far
    last_store_failed,        \* the file the loop took last had a batch insert fail
    inserts,                  \* batch inserts issued to the store, oldest first
    result,                   \* ParseResult returned by parse_repository
    cancel_requests,          \* calls of the cancel endpoint so far
    cancel_response,          \* answer of the last call of the cancel endpoint
    first_cancel_at,          \* where the task was when the first cancel was accepted
    linked_relationships,     \* rows of archon_kg_relationships with both end nodes stored
    cancel_pending,           \* cancel requests that await their cancel emit
    socket_tests,             \* calls of the socket-test endpoint so far
    repository_exists,        \* the archon_kg_repositories row of the job is in the store
    svc_cancel_response,      \* answer of KnowledgeGraphService.cancel_parsing
    \* TreeSitterParser on one file, and GraphBuilder on its nodes
    content,                  \* the lines of the file, each by the branch it takes
    kg_nodes,                 \* nodes extracted
    kg_relationships,         \* relationships extracted and built
    parser_pc,                \* "idle", "file", "parsed", "built"
    \* GraphBuilder._detect_cycles
    dep_graph,                \* dependency graph: set of edges <<source, target>>
    circular_dependencies,    \* cycles reported, each a sequence of node ids
    cycles_pc,                \* "idle", "graph", "analyzed"
    \* KnowledgeGraphService.query_graph
    kg_store,                 \* rows of archon_kg_nodes and archon_kg_relationships
    query,                    \* the GraphQuery
    query_batches,            \* node-id lists of the relationship requests issued
    query_result,             \* the dictionary returned
    \* file discovery: _read_repository_files on one file of the walk
    file,                     \* path and size of the file
    request,                  \* languages and max_file_size_kb of the ParseRequest
    discovery,                \* verdict of should_parse_file and fate of the file
    \* TreeSitterParser.calculate_complexity_score on the source of one node
    node_language,            \* language of the file of the node
    body,                     \* words of content.lower().split(): word -> occurrences
    complexity_score,         \* complexity_score of the node, None before the call
    \* KnowledgeGraphService._analyze_hotspots
    hot_nodes,                \* the KGNode list: name and complexity_score of each
    hot_relationships,        \* the KGRelationship list
    hotspots,                 \* results["hotspots"], None before the call
    \* parse_repository on a repository of Python files, with a store that accepts
    repo,                     \* file_contents: the lines of each file of the walk
    parse_request,            \* enable_cross_file_refs of the ParseRequest
    kg_graph,                 \* rows persisted: nodes and relationships
    builder_calls,            \* node lists build_relationships was called with
    repo_idx,                 \* files of the repository the loop has taken
    ingest_pc,                \* "idle", "loop", "build", "done"
    \* KnowledgeGraphService._store_nodes_and_relationships on its own
    sink_rows,                \* the node list and the relationship list handed in
    sink_batch_size,          \* batch_size of the call
    sink_batches,             \* inserts submitted, oldest first, each with its outcome
    sink_result,              \* how the call ended, and the rows counted as stored
    \* GraphBuilder._find_node_at_line
    line_nodes,               \* the node list: line_start and line_end of each
    line_num,                 \* the line asked for
    node_at_line,             \* the node returned, by its position in the list
    \* GraphBuilder on the nodes of one parsed Python file
    py_lines,                 \* the lines of the file
    py_nodes,                 \* the nodes parse_file extracted from it
    intra_relationships,      \* edges of _build_intra_file_relationships
    built_relationships,      \* edges of build_relationships on these nodes
    intra_pc,                 \* "idle", "file", "parsed", "built"
    \* ---- TreeSitterParser: the source excerpt of a class or function
    excerpt_language,         \* language of the file
    excerpt_file,             \* content.split('\n') of the file
    excerpt_source            \* source_code.split('\n') of the node declared on line 1

jobVars == <<pc, task, must_cancel, active_parsing_tasks, svc_active_parsing_tasks,
          source, events, temp_dir_exists, cloned_temp_dir, total_files, file_idx,
          processed_files, total_nodes_created, total_relationships_created,
          failed_files, stored_nodes, stored_relationships, store_failures,
          last_store_failed, inserts, result, cancel_requests, cancel_response, first_cancel_at,
          svc_cancel_response, linked_relationships, cancel_pending, socket_tests,
          repository_exists>>

parserVars == <<content, kg_nodes, kg_relationships, parser_pc>>

\* what the parse job leaves alone: the state of the library functions
cycleVars == <<dep_graph, circular_dependencies, cycles_pc>>

queryVars == <<kg_store, query, query_batches, query_result>>

filterVars == <<file, request, discovery>>

complexityVars == <<node_language, body, complexity_score>>

hotspotVars == <<hot_nodes, hot_relationships, hotspots>>

ingestVars == <<repo, parse_request, kg_graph, builder_calls, repo_idx, ingest_pc>>

sinkVars == <<sink_rows, sink_batch_size, sink_batches, sink_result>>

findVars == <<line_nodes, line_num, node_at_line>>

intraVars == <<py_lines, py_nodes, intra_relationships, built_relationships, intra_pc>>

excerptVars == <<excerpt_language, excerpt_file, excerpt_source>>

\* the functions of the analysis, of the sink and of the Graph Builder passes
analysisVars == <<hotspotVars, ingestVars, sinkVars, findVars, intraVars, excerptVars>>

\* the parser, the cycle search, the query, file discovery and the score
libVars == <<parserVars, cycleVars, queryVars, filterVars, complexityVars>>

fnVars == <<libVars, analysisVars>>

vars == <<jobVars, fnVars>>

storeVars == <<stored_nodes, stored_relationships, store_failures, last_store_failed,
               inserts>>
countVars == <<processed_files, total_nodes_created, total_relationships_created,
               failed_files>>
cancelVars == <<cancel_requests, cancel_response, first_cancel_at>>
restVars == <<linked_relationships, cancel_pending, socket_tests, repository_exists>>

PID == "parsing-1"
SID == "source-1"

\* ------------------------------------------------------------ the Source row
NoSource == [parsing_status |-> "none", parsing_error |-> "",
             total_nodes_created |-> 0, total_relationships_created |-> 0]

\* _create_kg_source: the row is inserted with parsing_status pending.
_create_kg_source ==
    [parsing_status |-> "pending", parsing_error |-> "",
     total_nodes_created |-> 0, total_relationships_created |-> 0]

\* _update_kg_source_status: when the store accepts the update the status is
\* written, the other columns only when given ("" and -1 stand for None).
\* When the store raises or returns no row the failure is logged, the call
\* returns normally and the row is left as it was.
_update_kg_source_status(row, status, error_message, nodes, rels, accepted) ==
    IF accepted
    THEN [parsing_status |-> status,
          parsing_error |-> IF error_message # "" THEN error_message ELSE row.parsing_error,
          total_nodes_created |-> IF nodes # -1 THEN nodes ELSE row.total_nodes_created,
          total_relationships_created |->
              IF rels # -1 THEN rels ELSE row.total_relationships_created]
    ELSE row

\* ------------------------------------------------------- progress channel
Terminal == {"complete", "error", "cancel"}

Event(type, status, total, processed, nodes, rels, message) ==
    [type |-> type, status |-> status, total_files |-> total,
     processed_files |-> processed, nodes_created |-> nodes,
     relationships_created |-> rels, message |-> message]

start_parsing_progress(evs) ==
    Append(evs, Event("start", "", 0, 0, 0, 0, ""))
update_parsing_progress(evs, status, total, processed, nodes, rels, current) ==
    Append(evs, Event("update", status, total, processed, nodes, rels, current))
complete_parsing_progress(evs, total, nodes, rels) ==
    Append(evs, Event("complete", "completed", total, 0, nodes, rels, ""))
error_parsing_progress(evs, message) ==
    Append(evs, Event("error", "", 0, 0, 0, 0, message))
cancel_parsing_progress(evs) ==
    Append(evs, Event("cancel", "", 0, 0, 0, 0, ""))

\* ParsingProgress declares errors: List[str]; the orchestrator passes
\* failed_files[-10:], a list of dicts, so construction succeeds only for an
\* empty list and raises a ValidationError otherwise.
ParsingProgressValid(errors) == Len(errors) = 0

\* ------------------------------------------------------------ the store sink
Min(a, b) == IF a < b THEN a ELSE b

NumBatches(n, batch_size) == (n + batch_size - 1) \div batch_size

\* rows of batch k (1-based) of range(0, n, batch_size)
BatchLen(n, batch_size, k) == Min(batch_size, n - (k - 1) * batch_size)

BatchOutcomes == {"ok", "nodata", "raise"}

\* rows accepted over the batches: a batch counts only when the insert
\* returned data; a batch that raised or returned no data is skipped.
RECURSIVE RowsStored(_, _, _, _)
RowsStored(n, batch_size, outcomes, k) ==
    IF k > NumBatches(n, batch_size) THEN 0
    ELSE (IF outcomes[k] = "ok" THEN BatchLen(n, batch_size, k) ELSE 0)
         + RowsStored(n, batch_size, outcomes, k + 1)

\* _store_nodes_and_relationships: every batch failure is caught inside, so
\* the call returns normally (raised = FALSE) whatever the outcomes.
_store_nodes_and_relationships(n_nodes, n_rels, batch_size, node_out, rel_out) ==
    [nodes |-> RowsStored(n_nodes, batch_size, node_out, 1),
     relationships |-> RowsStored(n_rels, batch_size, rel_out, 1),
     raised |-> FALSE]

\* batch (1-based) of range(0, n, batch_size) that holds row k
BatchOf(k, batch_size) == (k - 1) \div batch_size + 1

\* Relationships of a file that get_graph_statistics counts: rows the store
\* accepted whose source_node_id and target_node_id are both ids of stored
\* nodes.  Relationship k of a parsed file runs from the file node (row 1 of
\* the nodes) to the node of row k + 1.
LinkedRelationships(n_rels, batch_size, node_out, rel_out) ==
    Cardinality({k \in 1..n_rels :
                    /\ rel_out[BatchOf(k, batch_size)] = "ok"
                    /\ node_out[1] = "ok"
                    /\ node_out[BatchOf(k + 1, batch_size)] = "ok"})

\* a sink that writes the relationships of a file before its nodes
IssuedInsertsRelationshipsFirst(f, n_nodes, n_rels, batch_size) ==
    [k \in 1..NumBatches(n_rels, batch_size) |-> [file |-> f, table |-> "relationships"]]
    \o [k \in 1..NumBatches(n_nodes, batch_size) |-> [file |-> f, table |-> "nodes"]]

\* The inserts _store_nodes_and_relationships issues for the rows of file f:
\* one insert per node batch ("if nodes:" loop), then one per relationship
\* batch ("if relationships:" loop); a failed batch does not stop the loops.
IssuedInserts(f, n_nodes, n_rels, batch_size) ==
    [k \in 1..NumBatches(n_nodes, batch_size) |-> [file |-> f, table |-> "nodes"]]
    \o [k \in 1..NumBatches(n_rels, batch_size) |-> [file |-> f, table |-> "relationships"]]

\* _stream_store_file_data: True unless the sink raised.
_stream_store_file_data(n_nodes, n_rels, node_out, rel_out) ==
    LET r == _store_nodes_and_relationships(n_nodes, n_rels, StreamBatchSize,
                                            node_out, rel_out)
    IN  [storage_success |-> ~r.raised, nodes |-> r.nodes,
         relationships |-> r.relationships]

\* ------------------------------------------------------ cancellation probe
\* check_cancellation: raises only when the service's own registry holds the
\* source id and that task reports cancelled(), which asyncio reports only
\* for a task that has finished with CancelledError.
check_cancellation(registry, task_id, task_state) ==
    task_id \in registry /\ task_state = "cancelled"

\* ------------------------------------------------------------------- Init
JobIdle ==
    /\ pc = "idle"
    /\ task = "none"
    /\ must_cancel = FALSE
    /\ active_parsing_tasks = {}
    /\ svc_active_parsing_tasks = {}
    /\ source = NoSource
    /\ events = << >>
    /\ temp_dir_exists = FALSE
    /\ cloned_temp_dir = FALSE
    /\ total_files = 0
    /\ file_idx = 0
    /\ processed_files = 0
    /\ total_nodes_created = 0
    /\ total_relationships_created = 0
    /\ failed_files = << >>
    /\ stored_nodes = 0
    /\ stored_relationships = 0
    /\ store_failures = 0
    /\ last_store_failed = FALSE
    /\ inserts = << >>
    /\ result = [returned |-> FALSE, success |-> FALSE, error |-> ""]
    /\ cancel_requests = 0
    /\ cancel_response = "none"
    /\ first_cancel_at = "none"
    /\ svc_cancel_response = "none"
    /\ linked_relationships = 0
    /\ cancel_pending = 0
    /\ socket_tests = 0
    /\ repository_exists = FALSE

ParserIdle ==
    /\ content = << >>
    /\ kg_nodes = << >>
    /\ kg_relationships = << >>
    /\ parser_pc = "idle"

CyclesIdle ==
    /\ dep_graph = {}
    /\ circular_dependencies = << >>
    /\ cycles_pc = "idle"

NoResult == [returned |-> FALSE, nodes |-> << >>, relationships |-> << >>,
             total_nodes |-> 0, total_relationships |-> 0]

QueryIdle ==
    /\ kg_store = [nodes |-> 0, relationships |-> {}]
    /\ query = [node_types |-> {}, relationship_types |-> {}]
    /\ query_batches = << >>
    /\ query_result = NoResult

NoFile == [absolute |-> FALSE, dirs |-> << >>, name |-> "", size_bytes |-> 0,
           stat_ok |-> TRUE, readable |-> TRUE]

NoDiscovery == [done |-> FALSE, should_parse |-> FALSE, outcome |-> "none"]

FilterIdle ==
    /\ file = NoFile
    /\ request = [languages |-> {}, max_file_size_kb |-> 500]
    /\ discovery = NoDiscovery

ComplexityIdle ==
    /\ node_language = "none"
    /\ body = << >>
    /\ complexity_score = 0

HotspotIdle ==
    /\ hot_nodes = << >>
    /\ hot_relationships = << >>
    /\ hotspots = [returned |-> FALSE, hotspots |-> << >>]

IngestIdle ==
    /\ repo = << >>
    /\ parse_request = [enable_cross_file_refs |-> TRUE]
    /\ kg_graph = [nodes |-> << >>, relationships |-> << >>]
    /\ builder_calls = << >>
    /\ repo_idx = 0
    /\ ingest_pc = "idle"

NoSinkResult == [returned |-> FALSE, raised |-> FALSE, nodes |-> 0, relationships |-> 0]

SinkIdle ==
    /\ sink_rows = [nodes |-> << >>, relationships |-> << >>]
    /\ sink_batch_size = BuilderBatchSize
    /\ sink_batches = << >>
    /\ sink_result = NoSinkResult

FindNodeIdle ==
    /\ line_nodes = << >>
    /\ line_num = 1
    /\ node_at_line = [returned |-> FALSE, node |-> None]

IntraFileIdle ==
    /\ py_lines = << >>
    /\ py_nodes = << >>
    /\ intra_relationships = << >>
    /\ built_relationships = << >>
    /\ intra_pc = "idle"

ExcerptIdle ==
    /\ excerpt_language = ""
    /\ excerpt_file = << >>
    /\ excerpt_source = << >>

AnalysisIdle == HotspotIdle /\ IngestIdle /\ SinkIdle /\ FindNodeIdle /\ IntraFileIdle /\ ExcerptIdle

LibIdle == ParserIdle /\ CyclesIdle /\ QueryIdle /\ FilterIdle /\ ComplexityIdle

Init ==
    /\ JobIdle /\ ParserIdle /\ CyclesIdle /\ QueryIdle /\ FilterIdle /\ ComplexityIdle
    /\ AnalysisIdle


\* --------------------------------------------------- positions of the task
\* awaits of parse_repository that reach the event loop (progress emits)
ServiceSuspended == {"initial_emit", "clone_emit", "loop_emit", "final_emit"}
\* awaits of _perform_repository_parsing itself
ApiSuspended == {"sleep", "init_error_emit", "api_error_emit", "complete_emit"}
Suspended == ServiceSuspended \cup ApiSuspended \cup {"api_cancel_emit"}

TaskDone == task \in {"done", "cancelled"}

\* parse_repository, finally: the clone directory is removed only through
\* the local cloned_temp_dir.
finally_cleanup(cloned, dir_exists) == IF cloned /\ dir_exists THEN FALSE ELSE dir_exists

\* a handler that also catches BaseException
InnerHandlerCatchesAll(exc) == exc \in {"Exception", "CancelledError"}

\* "except Exception as e" of the loop body: a ValidationError is an
\* Exception, asyncio.CancelledError is not.
InnerHandlerCatches(exc) == exc = "Exception"

\* a failed result that is only logged
ApiFailedResultSilent(evs, error) == evs

\* _perform_repository_parsing after parse_repository returned a failed
\* result: the error event carries result.error.
ApiFailedResult(evs, error) == error_parsing_progress(evs, error)

\* parse_repository leaves with a failed ParseResult: the finally block runs
\* and the API reports result.error on the channel.
ServiceFails(row, error, dir_exists) ==
    /\ source' = row
    /\ result' = [returned |-> TRUE, success |-> FALSE, error |-> error]
    /\ temp_dir_exists' = finally_cleanup(cloned_temp_dir, dir_exists)
    /\ events' = ApiFailedResult(events, error)
    /\ pc' = "api_error_emit"

\* parse_repository, except asyncio.CancelledError
ServiceCancelled ==
    \E accepted \in BOOLEAN :
        ServiceFails(_update_kg_source_status(source, "failed", CancelledByUser, -1, -1,
                                              accepted),
                     OperationCancelled, temp_dir_exists)

\* parse_repository, except Exception (kg_source_id is set)
ServiceException(row, message) ==
    \E accepted \in BOOLEAN :
        ServiceFails(_update_kg_source_status(row, "failed", message, -1, -1, accepted),
                     message, temp_dir_exists)

\* --------------------------------------------------------------- the API
\* POST /parse up to "await start_parsing_progress": the start event is
\* emitted; the task does not exist yet and other requests are served while
\* the endpoint waits.
EmitStart ==
    /\ pc = "idle"
    /\ events' = start_parsing_progress(events)
    /\ pc' = "start_emit"
    /\ UNCHANGED <<task, must_cancel, active_parsing_tasks, svc_active_parsing_tasks,
                   source, temp_dir_exists, cloned_temp_dir, total_files, file_idx,
                   countVars, storeVars, result, cancelVars,
                   svc_cancel_response, fnVars, restVars>>

\* POST /parse after the emit: the task is created and registered, with no
\* await in between, and the endpoint returns the parsing id.
StartJob ==
    /\ pc = "start_emit"
    /\ UNCHANGED events
    /\ task' = "pending"
    /\ active_parsing_tasks' = active_parsing_tasks \cup {PID}
    /\ pc' = "created"
    /\ UNCHANGED <<must_cancel, svc_active_parsing_tasks, source,
                   temp_dir_exists, cloned_temp_dir, total_files, file_idx,
                   countVars, storeVars, result, cancelVars,
                   svc_cancel_response, fnVars, restVars>>

\* The first step of the task.  A task cancelled before its first step gets
\* CancelledError thrown into the coroutine before its body starts: no
\* try/finally of _perform_repository_parsing runs, nothing is emitted and the
\* registry entry stays.  Otherwise the body runs up to
\* await asyncio.sleep(1.0).
TaskBegin ==
    /\ pc = "created"
    /\ IF must_cancel
       THEN /\ task' = "cancelled"
            /\ must_cancel' = FALSE
            /\ pc' = "finished"
       ELSE /\ pc' = "sleep"
            /\ UNCHANGED <<task, must_cancel>>
    /\ UNCHANGED <<active_parsing_tasks,
                   svc_active_parsing_tasks, source, events, temp_dir_exists,
                   cloned_temp_dir, total_files, file_idx, countVars,
                   storeVars, result, cancelVars, svc_cancel_response, fnVars, restVars>>

\* service initialisation and registration of the current task
InitService ==
    /\ pc = "sleep"
    /\ ~must_cancel
    /\ \E init_ok \in BOOLEAN :
         IF init_ok
         THEN /\ active_parsing_tasks' = active_parsing_tasks \cup {PID}
              /\ pc' = "service_ready"
              /\ UNCHANGED events
         ELSE /\ events' = error_parsing_progress(events, "Service initialization failed")
              /\ pc' = "init_error_emit"
              /\ UNCHANGED active_parsing_tasks
    /\ UNCHANGED <<task, must_cancel, svc_active_parsing_tasks, source,
                   temp_dir_exists, cloned_temp_dir, total_files, file_idx,
                   countVars, storeVars, result, cancelVars,
                   svc_cancel_response, fnVars, restVars>>

\* ------------------------------------------------------- parse_repository
\* Source row insert and the initial progress event
CreateSource ==
    /\ pc = "service_ready"
    /\ \E insert_ok \in BOOLEAN :
         IF insert_ok
         THEN /\ source' = _create_kg_source
              /\ events' = update_parsing_progress(events, "processing", 0, 0, 0, 0, "")
              /\ pc' = "initial_emit"
              /\ UNCHANGED <<result, temp_dir_exists>>
         ELSE \* kg_source_id is still None: the handler updates no row
              ServiceFails(source, "Repository parsing failed: Failed to create KG source record",
                           temp_dir_exists)
    /\ UNCHANGED <<task, must_cancel, active_parsing_tasks,
                   svc_active_parsing_tasks, cloned_temp_dir, total_files,
                   file_idx, countVars, storeVars, cancelVars,
                   svc_cancel_response, fnVars, restVars>>

\* local_path, repository_url (mkdtemp and the clone progress event), or neither
ResolvePath ==
    /\ pc = "initial_emit"
    /\ ~must_cancel
    /\ \E kind \in {"local_path", "repository_url", "neither"} :
         CASE kind = "local_path" ->
                /\ pc' = "verify_path"
                /\ UNCHANGED <<source, result, temp_dir_exists, events>>
           [] kind = "repository_url" ->
                /\ temp_dir_exists' = TRUE
                /\ events' = update_parsing_progress(events, "processing", 0, 0, 0, 0,
                                                     "Cloning")
                /\ pc' = "clone_emit"
                /\ UNCHANGED <<source, result>>
           [] kind = "neither" ->
                ServiceFails(source, "Either local_path or repository_url must be specified",
                             temp_dir_exists)
    /\ UNCHANGED <<task, must_cancel, active_parsing_tasks,
                   svc_active_parsing_tasks, cloned_temp_dir, total_files,
                   file_idx, countVars, storeVars, cancelVars,
                   svc_cancel_response, fnVars, restVars>>

\* _clone_repository after its progress emit: git clone and its checks.  Every
\* failure removes the directory and raises; success hands the path back.
CloneRepository ==
    /\ pc = "clone_emit"
    /\ ~must_cancel
    /\ \E outcome \in {"ok", "failed", "empty", "timeout"}, accepted \in BOOLEAN :
         IF outcome = "ok"
         THEN /\ cloned_temp_dir' = TRUE
              /\ pc' = "verify_path"
              /\ UNCHANGED <<source, result, temp_dir_exists, events>>
         ELSE /\ ServiceFails(_update_kg_source_status(source, "failed",
                                  "Repository parsing failed: clone", -1, -1, accepted),
                              "Repository parsing failed: clone", FALSE)
              /\ UNCHANGED cloned_temp_dir
    /\ UNCHANGED <<task, must_cancel, active_parsing_tasks,
                   svc_active_parsing_tasks, total_files, file_idx, countVars,
                   storeVars, cancelVars, svc_cancel_response, fnVars, restVars>>

\* path check, file discovery, Repository row
PrepareRepository ==
    /\ pc = "verify_path"
    /\ \E path_exists \in BOOLEAN, files_read \in BOOLEAN, n \in 0..MaxFiles,
          repository_ok \in BOOLEAN, accepted \in BOOLEAN :
         /\ cloned_temp_dir => path_exists
         /\ ~files_read => n = 0
         /\ IF ~path_exists
            THEN /\ ServiceFails(_update_kg_source_status(source, "failed",
                                     "Repository path not found", -1, -1, accepted),
                                 "Path does not exist", temp_dir_exists)
                 /\ UNCHANGED total_files
            ELSE IF ~files_read
            THEN \* _read_repository_files raised (a file could not be read)
                 /\ ServiceException(source,
                       "Repository parsing failed: name 'safe_logfire_warning' is not defined")
                 /\ UNCHANGED total_files
            ELSE IF n = 0
            THEN /\ ServiceFails(_update_kg_source_status(source, "failed",
                                     "No parseable files found", -1, -1, accepted),
                                 "Repository contains no supported file types",
                                 temp_dir_exists)
                 /\ UNCHANGED total_files
            ELSE IF ~repository_ok
            THEN /\ ServiceException(source,
                       "Repository parsing failed: Failed to create KG repository record")
                 /\ UNCHANGED total_files
            ELSE /\ total_files' = n
                 /\ pc' = "loop"
                 /\ UNCHANGED <<source, result, temp_dir_exists, events>>
         /\ repository_exists' = (path_exists /\ files_read /\ n > 0 /\ repository_ok)
    /\ UNCHANGED <<task, must_cancel, active_parsing_tasks,
                   svc_active_parsing_tasks, cloned_temp_dir, file_idx,
                   countVars, storeVars, cancelVars, svc_cancel_response, fnVars,
                   linked_relationships, cancel_pending, socket_tests>>


\* ------------------------------------------ streaming parse-and-store loop
\* failed_files[-10:]
LastTen(seq) == IF Len(seq) <= 10 THEN seq ELSE SubSeq(seq, Len(seq) - 9, Len(seq))

\* "if processed_files % 5 == 0 or processed_files == total_files"
ProgressDue(processed, total) == processed % ProgressEvery = 0 \/ processed = total

\* files of failed_files whose parse failed
ParseFailures(failed) ==
    Cardinality({i \in DOMAIN failed : failed[i].error = "parse"})

AllOk(outcomes) == \A k \in DOMAIN outcomes : outcomes[k] = "ok"

Failed(outcomes) == Cardinality({k \in DOMAIN outcomes : outcomes[k] # "ok"})

\* The repository under test: the files of the walk alternate between a file
\* with the file node alone and a file with MaxNodesPerFile nodes, each
\* non-file node under one contains edge.
FileNodes(f) == IF f % 2 = 1 THEN MaxNodesPerFile ELSE 1
FileRelationships(f) == FileNodes(f) - 1

AfterFile(f) == IF f < total_files THEN "loop" ELSE "build"

\* One iteration of "for file_path, content in file_contents.items()": the
\* probe at the head of parse_file, the parse, the streamed store, the totals,
\* the progress event when due, and the handler of the iteration.
ProcessFile ==
    /\ pc = "loop"
    /\ file_idx < total_files
    /\ LET f == file_idx + 1 IN
       IF check_cancellation(svc_active_parsing_tasks, SID, task)
       THEN /\ ServiceCancelled
            /\ UNCHANGED <<file_idx, countVars, storeVars, linked_relationships>>
       ELSE
       \E parse_ok \in BOOLEAN :
       \E node_out \in [1..NumBatches(FileNodes(f), StreamBatchSize) -> BatchOutcomes],
          rel_out \in [1..NumBatches(FileRelationships(f), StreamBatchSize)
                         -> BatchOutcomes] :
         LET n_nodes == FileNodes(f)
             n_rels == FileRelationships(f)
             stored == _stream_store_file_data(n_nodes, n_rels, node_out, rel_out)
             batch_failed == parse_ok /\ ~(AllOk(node_out) /\ AllOk(rel_out))
             failed1 ==
                 IF ~parse_ok THEN Append(failed_files, [file_path |-> f, error |-> "parse"])
                 ELSE IF ~stored.storage_success
                      THEN Append(failed_files, [file_path |-> f, error |-> StorageFailed])
                      ELSE failed_files
             counted == parse_ok /\ stored.storage_success
             processed1 == processed_files + 1
             due == ProgressDue(processed1, total_files)
             valid == ParsingProgressValid(LastTen(failed1))
         IN
         /\ ~parse_ok => (AllOk(node_out) /\ AllOk(rel_out))
         /\ ~parse_ok => ParseFailures(failed_files) < MaxParseFailures
         /\ store_failures + Failed(node_out) + Failed(rel_out) <= MaxStoreFailures
         /\ file_idx' = f
         /\ stored_nodes' = stored_nodes + (IF parse_ok THEN stored.nodes ELSE 0)
         /\ stored_relationships' =
                stored_relationships + (IF parse_ok THEN stored.relationships ELSE 0)
         /\ linked_relationships' =
                linked_relationships
                + (IF parse_ok
                   THEN LinkedRelationships(n_rels, StreamBatchSize, node_out, rel_out)
                   ELSE 0)
         /\ store_failures' = store_failures + Failed(node_out) + Failed(rel_out)
         /\ last_store_failed' = batch_failed
         /\ inserts' = IF parse_ok
                        THEN inserts \o IssuedInserts(f, n_nodes, n_rels, StreamBatchSize)
                        ELSE inserts
         /\ total_nodes_created' = total_nodes_created + (IF counted THEN n_nodes ELSE 0)
         /\ total_relationships_created' =
                total_relationships_created + (IF counted THEN n_rels ELSE 0)
         /\ IF due /\ valid
            THEN \* the update event is emitted and the task waits on it
                 /\ events' = update_parsing_progress(events, "processing", total_files,
                                  processed1, total_nodes_created',
                                  total_relationships_created', "file")
                 /\ processed_files' = processed1
                 /\ failed_files' = failed1
                 /\ pc' = "loop_emit"
            ELSE IF due
            THEN \* ParsingProgress raised inside the try: the handler records
                 \* the file again and counts it again
                 /\ failed_files' = Append(failed1, [file_path |-> f, error |-> "validation"])
                 /\ processed_files' = processed1 + 1
                 /\ pc' = AfterFile(f)
                 /\ UNCHANGED events
            ELSE /\ failed_files' = failed1
                 /\ processed_files' = processed1
                 /\ pc' = AfterFile(f)
                 /\ UNCHANGED events
         /\ UNCHANGED <<source, result, temp_dir_exists>>
    /\ UNCHANGED <<task, must_cancel, active_parsing_tasks,
                   svc_active_parsing_tasks, cloned_temp_dir, total_files,
                   cancelVars, svc_cancel_response, fnVars, cancel_pending,
                   socket_tests, repository_exists>>

\* the task is resumed after the update event of the loop
LoopResume ==
    /\ pc = "loop_emit"
    /\ ~must_cancel
    /\ pc' = AfterFile(file_idx)
    /\ UNCHANGED <<task, must_cancel, active_parsing_tasks,
                   svc_active_parsing_tasks, source, events, temp_dir_exists,
                   cloned_temp_dir, total_files, file_idx, countVars,
                   storeVars, result, cancelVars, svc_cancel_response, fnVars, restVars>>

\* GraphBuilder.build_relationships([], file_contents, probe): with an empty
\* node list no pass yields an edge; the cross-file pass probes once per file.
build_relationships == 0

\* file index under which the inserts of Graph Builder edges are logged
GraphBuilderEdges == 0

BuildRelationships ==
    /\ pc = "build"
    /\ IF check_cancellation(svc_active_parsing_tasks, SID, task)
       THEN /\ ServiceCancelled
            /\ UNCHANGED <<total_relationships_created, stored_relationships,
                           inserts>>
       ELSE /\ total_relationships_created' =
                   total_relationships_created + build_relationships
            /\ stored_relationships' = stored_relationships + build_relationships
            /\ inserts' = inserts \o IssuedInserts(GraphBuilderEdges, 0, build_relationships,
                                                   BuilderBatchSize)
            /\ pc' = "finalize"
            /\ UNCHANGED <<source, result, temp_dir_exists, events>>
    /\ UNCHANGED <<task, must_cancel, active_parsing_tasks,
                   svc_active_parsing_tasks, cloned_temp_dir, total_files,
                   file_idx, processed_files, total_nodes_created,
                   failed_files, stored_nodes, store_failures,
                   last_store_failed, cancelVars, svc_cancel_response, fnVars, restVars>>

\* repository statistics, then the Source row is set to completed
Finalize ==
    /\ pc = "finalize"
    /\ \E accepted \in BOOLEAN :
         source' = _update_kg_source_status(source, "completed", "", total_nodes_created,
                                            total_relationships_created, accepted)
    /\ pc' = "final_progress"
    /\ UNCHANGED <<task, must_cancel, active_parsing_tasks,
                   svc_active_parsing_tasks, events, temp_dir_exists,
                   cloned_temp_dir, total_files, file_idx, countVars,
                   storeVars, result, cancelVars, svc_cancel_response, fnVars, restVars>>

\* final progress update; a ParsingProgress that does not validate lands in
\* parse_repository's "except Exception"
FinalProgress ==
    /\ pc = "final_progress"
    /\ IF ParsingProgressValid(LastTen(failed_files))
       THEN /\ events' = update_parsing_progress(events, "completed", total_files,
                             processed_files, total_nodes_created,
                             total_relationships_created, "")
            /\ pc' = "final_emit"
            /\ UNCHANGED <<source, result, temp_dir_exists>>
       ELSE ServiceException(source, "Repository parsing failed: validation error")
    /\ UNCHANGED <<task, must_cancel, active_parsing_tasks,
                   svc_active_parsing_tasks, cloned_temp_dir, total_files,
                   file_idx, countVars, storeVars, cancelVars,
                   svc_cancel_response, fnVars, restVars>>

\* _perform_repository_parsing on a successful result: the complete event
\* carries the totals get_graph_statistics reads back from the store (the
\* stored nodes of the repository and the relationships between them), or,
\* when that read raises, the totals of result.statistics.
ApiSucceededResult(evs, total, statistics_read, real_stats, statistics) ==
    IF statistics_read
    THEN complete_parsing_progress(evs, total, real_stats.total_nodes,
                                   real_stats.total_relationships)
    ELSE complete_parsing_progress(evs, total, statistics.total_nodes,
                                   statistics.total_relationships)

\* get_graph_statistics: the nodes of the repository and the relationships
\* both of whose ends are among them
get_graph_statistics(nodes, linked) ==
    [total_nodes |-> nodes, total_relationships |-> linked]

\* parse_repository returns success (the finally block runs)
ReturnSuccess ==
    /\ pc = "final_emit"
    /\ ~must_cancel
    /\ result' = [returned |-> TRUE, success |-> TRUE, error |-> ""]
    /\ temp_dir_exists' = finally_cleanup(cloned_temp_dir, temp_dir_exists)
    /\ \E statistics_read \in BOOLEAN :
         events' = ApiSucceededResult(events, total_files, statistics_read,
                       get_graph_statistics(stored_nodes, linked_relationships),
                       [total_nodes |-> total_nodes_created,
                        total_relationships |-> total_relationships_created])
    /\ pc' = "complete_emit"
    /\ UNCHANGED <<task, must_cancel, active_parsing_tasks,
                   svc_active_parsing_tasks, source, cloned_temp_dir,
                   total_files, file_idx, countVars, storeVars, cancelVars,
                   svc_cancel_response, fnVars, restVars>>

\* ---------------------------------------------------------- end of the task
\* _perform_repository_parsing, finally: "if parsing_id in
\* active_parsing_tasks: del active_parsing_tasks[parsing_id]"
CleanupTask(registry, id) == registry \ {id}

\* _perform_repository_parsing, finally: the registry entry is deleted
TaskEnd ==
    /\ pc \in {"complete_emit", "api_error_emit", "init_error_emit"}
    /\ ~must_cancel
    /\ active_parsing_tasks' = CleanupTask(active_parsing_tasks, PID)
    /\ task' = "done"
    /\ pc' = "finished"
    /\ UNCHANGED <<must_cancel, svc_active_parsing_tasks, source, events,
                   temp_dir_exists, cloned_temp_dir, total_files, file_idx,
                   countVars, storeVars, result, cancelVars,
                   svc_cancel_response, fnVars, restVars>>

\* the handler of CancelledError re-raises (or is cancelled again while it
\* emits): finally runs and the task ends cancelled
TaskEndCancelled ==
    /\ pc = "api_cancel_emit"
    /\ active_parsing_tasks' = CleanupTask(active_parsing_tasks, PID)
    /\ task' = "cancelled"
    /\ must_cancel' = FALSE
    /\ pc' = "finished"
    /\ UNCHANGED <<svc_active_parsing_tasks, source, events, temp_dir_exists,
                   cloned_temp_dir, total_files, file_idx, countVars,
                   storeVars, result, cancelVars, svc_cancel_response, fnVars, restVars>>

\* ------------------------------------------------- delivery of cancellation
\* CancelledError raised at an await inside parse_repository
DeliverCancelService ==
    /\ must_cancel
    /\ pc \in ServiceSuspended
    /\ must_cancel' = FALSE
    /\ IF pc = "loop_emit" /\ InnerHandlerCatches("CancelledError")
       THEN \* the emit of the loop is awaited inside the loop's try
            /\ failed_files' = Append(failed_files,
                                      [file_path |-> file_idx, error |-> "cancelled"])
            /\ processed_files' = processed_files + 1
            /\ pc' = AfterFile(file_idx)
            /\ UNCHANGED <<source, result, temp_dir_exists, events,
                           total_nodes_created, total_relationships_created>>
       ELSE /\ ServiceCancelled
            /\ UNCHANGED countVars
    /\ UNCHANGED <<task, active_parsing_tasks, svc_active_parsing_tasks,
                   cloned_temp_dir, total_files, file_idx,
                   storeVars, cancelVars, svc_cancel_response, fnVars, restVars>>

\* _perform_repository_parsing, except asyncio.CancelledError
ApiCancelled(evs) == error_parsing_progress(evs, CancelledByUser)

\* CancelledError raised at an await of _perform_repository_parsing itself
DeliverCancelApi ==
    /\ must_cancel
    /\ pc \in ApiSuspended
    /\ must_cancel' = FALSE
    /\ events' = ApiCancelled(events)
    /\ pc' = "api_cancel_emit"
    /\ UNCHANGED <<task, active_parsing_tasks, svc_active_parsing_tasks,
                   source, temp_dir_exists, cloned_temp_dir, total_files,
                   file_idx, countVars, storeVars, result, cancelVars,
                   svc_cancel_response, fnVars, restVars>>

\* -------------------------------------------------------- cancel requests
\* POST /parsing/{parsing_id}/cancel for the parsing id of the job.  It is
\* served between two steps of the task: while the start request waits on its
\* emit, before the first step of the task, while the task is suspended, or
\* after it has ended.  When the task
\* is cancelled the endpoint emits the cancel event and answers only after
\* that emit, so the task may run before the answer; the other two answers
\* are given at once.
CancelPoint ==
    IF pc = "loop_emit" /\ file_idx < total_files THEN "between_files" ELSE pc

cancel_parsing ==
    /\ cancel_requests < MaxCancels
    /\ pc \in Suspended \cup {"start_emit", "created", "finished"}
    /\ cancel_requests' = cancel_requests + 1
    /\ IF PID \in active_parsing_tasks
       THEN IF ~TaskDone
            THEN /\ must_cancel' = TRUE
                 /\ events' = cancel_parsing_progress(events)
                 /\ cancel_pending' = cancel_pending + 1
                 /\ first_cancel_at' = IF first_cancel_at = "none" THEN CancelPoint
                                       ELSE first_cancel_at
                 /\ UNCHANGED cancel_response
            ELSE /\ cancel_response' = "already completed"
                 /\ UNCHANGED <<must_cancel, events, first_cancel_at, cancel_pending>>
       ELSE /\ cancel_response' = "not found"
            /\ UNCHANGED <<must_cancel, events, first_cancel_at, cancel_pending>>
    /\ UNCHANGED <<pc, task, active_parsing_tasks, svc_active_parsing_tasks,
                   source, temp_dir_exists, cloned_temp_dir, total_files,
                   file_idx, countVars, storeVars, result,
                   svc_cancel_response, fnVars, linked_relationships,
                   socket_tests, repository_exists>>

\* the cancel endpoint is resumed after its emit and answers
cancel_parsing_return ==
    /\ cancel_pending > 0
    /\ cancel_pending' = cancel_pending - 1
    /\ cancel_response' = "cancelled"
    /\ UNCHANGED <<pc, task, must_cancel, active_parsing_tasks,
                   svc_active_parsing_tasks, source, events, temp_dir_exists,
                   cloned_temp_dir, total_files, file_idx, countVars, storeVars,
                   result, cancel_requests, first_cancel_at, svc_cancel_response,
                   fnVars, linked_relationships, socket_tests, repository_exists>>

\* GET /socket-test/{parsing_id} with the parsing id of the job: a test update
\* is emitted on the channel, whatever the state of the job.
TestProgress ==
    Event("update", "testing", 100, 50, 250, 150,
          "Test progress update from Knowledge Graph API")

test_socket_progress ==
    /\ socket_tests < MaxSocketTests
    /\ pc \in Suspended \cup {"idle", "start_emit", "created", "finished"}
    /\ socket_tests' = socket_tests + 1
    /\ events' = Append(events, TestProgress)
    /\ UNCHANGED <<pc, task, must_cancel, active_parsing_tasks,
                   svc_active_parsing_tasks, source, temp_dir_exists,
                   cloned_temp_dir, total_files, file_idx, countVars, storeVars,
                   result, cancelVars, svc_cancel_response, fnVars,
                   linked_relationships, cancel_pending, repository_exists>>

\* DELETE /repositories/{repository_id} with the repository of the job: the
\* row is deleted and, by the cascade of the schema, the nodes of the
\* repository and their relationships with it.  What the store answers to
\* the inserts of a job that is still running stays an input of ProcessFile.
delete_repository ==
    /\ repository_exists
    /\ pc \in Suspended \cup {"created", "finished"}
    /\ repository_exists' = FALSE
    /\ stored_nodes' = 0
    /\ stored_relationships' = 0
    /\ linked_relationships' = 0
    /\ UNCHANGED <<pc, task, must_cancel, active_parsing_tasks,
                   svc_active_parsing_tasks, source, events, temp_dir_exists,
                   cloned_temp_dir, total_files, file_idx, countVars,
                   store_failures, last_store_failed, inserts, result, cancelVars,
                   svc_cancel_response, fnVars, cancel_pending, socket_tests>>

\* KnowledgeGraphService.cancel_parsing(kg_source_id), called with the job's
\* source id while parse_repository is running (the task is suspended in it)
svc_cancel_parsing ==
    /\ pc \in ServiceSuspended
    /\ LET hit == SID \in svc_active_parsing_tasks /\ ~TaskDone
       IN  /\ must_cancel' = (must_cancel \/ hit)
           /\ svc_cancel_response' = IF hit THEN "true" ELSE "false"
    /\ UNCHANGED <<pc, task, active_parsing_tasks, svc_active_parsing_tasks,
                   source, events, temp_dir_exists, cloned_temp_dir,
                   total_files, file_idx, countVars, storeVars, result,
                   cancelVars, fnVars, restVars>>

\* -------------------------------------------------------------------- Next
TaskStep ==
    \/ TaskBegin \/ InitService \/ CreateSource \/ ResolvePath \/ CloneRepository
    \/ PrepareRepository \/ ProcessFile \/ LoopResume \/ BuildRelationships
    \/ Finalize \/ FinalProgress \/ ReturnSuccess \/ TaskEnd \/ TaskEndCancelled
    \/ DeliverCancelService \/ DeliverCancelApi

\* steps of the endpoints that the event loop resumes after an emit
EndpointStep == StartJob \/ cancel_parsing_return

Next ==
    \/ EmitStart \/ StartJob
    \/ TaskBegin \/ InitService \/ CreateSource \/ ResolvePath \/ CloneRepository
    \/ PrepareRepository \/ ProcessFile \/ LoopResume \/ BuildRelationships
    \/ Finalize \/ FinalProgress \/ ReturnSuccess \/ TaskEnd \/ TaskEndCancelled
    \/ DeliverCancelService \/ DeliverCancelApi
    \/ cancel_parsing \/ cancel_parsing_return
    \/ test_socket_progress \/ delete_repository
    \/ svc_cancel_parsing

Spec == Init /\ [][Next]_vars

\* The event loop runs a task that is ready: every step of the task, and of
\* an endpoint that waits on an emit, is taken once it stays enabled.
FairSpec == Spec /\ WF_vars(TaskStep) /\ WF_vars(EndpointStep)

TypeOK ==
    /\ pc \in Suspended \cup {"idle", "start_emit", "created", "service_ready", "verify_path",
                              "loop", "build", "finalize", "final_progress", "finished"}
    /\ task \in {"none", "pending", "done", "cancelled"}
    /\ must_cancel \in BOOLEAN
    /\ file_idx \in 0..total_files
    /\ total_files \in 0..MaxFiles


\* ============================================================ the file parser
\* TreeSitterParser._parse_object_oriented_file and
\* GraphBuilder._build_containment_relationships on one file.  A line of the
\* file is given by the branch of the line loop its stripped text selects:
\* "class" (starts with "class " and holds a colon), "def" (starts with
\* "def " or "function "), "import" (starts with "import " or "from "), and
\* "other" for every line no branch takes.
MaxLines == 4

LineKinds == {"class", "def", "import", "other"}

FilePath == "a.py"

\* id of the file node; the node made for line i has id i
FileNodeId == 0

KGNode(id, node_type, line_start) ==
    [id |-> id, node_type |-> node_type, file_path |-> FilePath,
     line_start |-> line_start, line_end |-> None]

KGRelationship(source_node_id, target_node_id, relationship_type) ==
    [source_node_id |-> source_node_id, target_node_id |-> target_node_id,
     relationship_type |-> relationship_type]

\* "Create imports relationship": relationship_type=RelationshipType.IMPORTS
ImportEdge == "imports"

\* the line loop: a class or function line yields a node and a contains edge
\* from the file node, an import line a node and an imports edge from the file
\* node; no branch sets line_end
RECURSIVE ParseLines(_, _, _, _)
ParseLines(lines, i, nodes, relationships) ==
    IF i > Len(lines) THEN [nodes |-> nodes, relationships |-> relationships]
    ELSE CASE lines[i] = "class" ->
                ParseLines(lines, i + 1, Append(nodes, KGNode(i, "class", i)),
                           Append(relationships, KGRelationship(FileNodeId, i, "contains")))
           [] lines[i] = "def" ->
                ParseLines(lines, i + 1, Append(nodes, KGNode(i, "function", i)),
                           Append(relationships, KGRelationship(FileNodeId, i, "contains")))
           [] lines[i] = "import" ->
                ParseLines(lines, i + 1, Append(nodes, KGNode(i, "import", i)),
                           Append(relationships, KGRelationship(FileNodeId, i, ImportEdge)))
           [] OTHER -> ParseLines(lines, i + 1, nodes, relationships)

\* the file node first, then the line loop
_parse_object_oriented_file(lines) ==
    ParseLines(lines, 1, <<KGNode(FileNodeId, "file", None)>>, << >>)

\* _find_parent_node: among the other nodes with both line bounds set that
\* strictly enclose the node, the one of smallest range (the first on a tie);
\* None when the node has no line_start or nothing encloses it
Encloses(candidate, node) ==
    /\ candidate.id # node.id
    /\ candidate.line_start # None /\ candidate.line_end # None
    /\ candidate.line_start < node.line_start
    /\ candidate.line_end >
           (IF node.line_end # None THEN node.line_end ELSE node.line_start)

_find_parent_node(node, all_nodes) ==
    LET candidates == {k \in DOMAIN all_nodes : Encloses(all_nodes[k], node)}
        range(k) == all_nodes[k].line_end - all_nodes[k].line_start
        best == CHOOSE k \in candidates :
                    \A m \in candidates :
                        range(k) < range(m) \/ (range(k) = range(m) /\ k <= m)
    IN  IF node.line_start = None \/ candidates = {} THEN None
        ELSE all_nodes[best].id

\* non_file_nodes.sort(key=lambda x: x.line_start or 0): stable, ascending
RECURSIVE SortByLineStart(_)
SortByLineStart(seq) ==
    IF Len(seq) <= 1 THEN seq
    ELSE LET least == CHOOSE k \in DOMAIN seq :
                          \A m \in DOMAIN seq :
                              seq[k].line_start < seq[m].line_start
                              \/ (seq[k].line_start = seq[m].line_start /\ k <= m)
             rest == [m \in 1..(Len(seq) - 1) |-> IF m < least THEN seq[m] ELSE seq[m + 1]]
         IN  <<seq[least]>> \o SortByLineStart(rest)

IsFileNode(node) == node.node_type = "file"
IsNonFileNode(node) == node.node_type # "file"

\* _build_containment_relationships for the nodes of one file: nothing when
\* the list holds no file node; otherwise one contains edge per non-file node,
\* from its parent node when it has one and from the file node when not
_build_containment_relationships(nodes) ==
    LET file_nodes == SelectSeq(nodes, IsFileNode)
        non_file_nodes == SortByLineStart(SelectSeq(nodes, IsNonFileNode))
        edge(node) ==
            LET parent == _find_parent_node(node, non_file_nodes)
            IN  IF parent # None THEN KGRelationship(parent, node.id, "contains")
                ELSE KGRelationship(file_nodes[1].id, node.id, "contains")
    IN  IF Len(file_nodes) = 0 THEN << >>
        ELSE [k \in 1..Len(non_file_nodes) |-> edge(non_file_nodes[k])]

RECURSIVE SeqsUpTo(_, _)
SeqsUpTo(S, n) ==
    IF n = 0 THEN {<< >>}
    ELSE LET shorter == SeqsUpTo(S, n - 1)
         IN  shorter \cup {Append(q, x) : q \in {r \in shorter : Len(r) = n - 1}, x \in S}

ParserInit ==
    /\ JobIdle /\ CyclesIdle /\ QueryIdle /\ FilterIdle /\ ComplexityIdle /\ AnalysisIdle
    /\ content \in SeqsUpTo(LineKinds, MaxLines)
    /\ kg_nodes = << >>
    /\ kg_relationships = << >>
    /\ parser_pc = "file"

\* parse_file on a file of an object-oriented language
ParseFile ==
    /\ parser_pc = "file"
    /\ LET parsed == _parse_object_oriented_file(content)
       IN  /\ kg_nodes' = parsed.nodes
           /\ kg_relationships' = parsed.relationships
    /\ parser_pc' = "parsed"
    /\ UNCHANGED <<content, jobVars, cycleVars, queryVars, filterVars,
                   complexityVars, analysisVars>>

\* The containment pass of GraphBuilder.build_relationships.  parse_repository
\* hands the builder an empty node list; a caller of the builder itself hands
\* it the nodes of the file.
BuildContainment ==
    /\ parser_pc = "parsed"
    /\ \E given \in {<< >>, kg_nodes} :
         kg_relationships' = kg_relationships \o _build_containment_relationships(given)
    /\ parser_pc' = "built"
    /\ UNCHANGED <<content, kg_nodes, jobVars, cycleVars, queryVars, filterVars,
                   complexityVars, analysisVars>>

ParserNext == ParseFile \/ BuildContainment

ParserSpec == ParserInit /\ [][ParserNext]_vars

\* ========================================================= cycle detection
\* GraphBuilder._detect_cycles on the dependency graph analyze_dependencies
\* builds.  The graph is a dict from a node to the set of its targets: its
\* keys come in the order the relationships were met, and a Python set of
\* strings iterates in no fixed order, so both orders are inputs.
MaxVertices == 3
MaxEdges == 4

Vertices == 1..MaxVertices

Perms(S) ==
    {q \in [1..Cardinality(S) -> S] : \A a, b \in DOMAIN q : a # b => q[a] # q[b]}

\* "for node in graph": the keys are the nodes with an outgoing edge
GraphKeys(graph) == {e[1] : e \in graph}

\* a lookup that follows an edge in both directions
GraphGetEitherWay(graph, node) ==
    {e[2] : e \in {d \in graph : d[1] = node}} \cup {e[1] : e \in {d \in graph : d[2] = node}}

\* graph.get(node, set())
GraphGet(graph, node) == {e[2] : e \in {d \in graph : d[1] = node}}

\* the orders in which the neighbour sets of the nodes can iterate: for every
\* node one order of graph.get(node, set())
RECURSIVE NeighborOrdersOf(_, _)
NeighborOrdersOf(graph, nodes) ==
    IF nodes = {} THEN {<< >>}
    ELSE LET node == CHOOSE v \in nodes : \A w \in nodes : v >= w
         IN  {[v \in nodes |-> IF v = node THEN order ELSE rest[v]] :
                  rest \in NeighborOrdersOf(graph, nodes \ {node}),
                  order \in Perms(GraphGet(graph, node))}

\* path.index(node)
Index(path, node) ==
    CHOOSE k \in DOMAIN path : path[k] = node /\ \A m \in 1..(k - 1) : path[m] # node

\* rec_stack.remove(node)
LeaveNode(rec_stack, node) == rec_stack \ {node}

\* dfs(node, path) and its loop over the neighbours; st holds visited,
\* rec_stack and cycles, which the closure shares between all calls, while
\* path is copied for every call
RECURSIVE dfs(_, _, _, _, _)
RECURSIVE dfs_neighbors(_, _, _, _, _, _)
dfs(graph, neighbor_order, node, path, st) ==
    IF node \in st.rec_stack
    THEN [st EXCEPT !.cycles =
              Append(@, SubSeq(path, Index(path, node), Len(path)) \o <<node>>)]
    ELSE IF node \in st.visited THEN st
    ELSE LET entered == [visited |-> st.visited \cup {node},
                         rec_stack |-> st.rec_stack \cup {node},
                         cycles |-> st.cycles]
             done == dfs_neighbors(graph, neighbor_order,
                         neighbor_order[node], 1,
                         Append(path, node), entered)
         IN  [done EXCEPT !.rec_stack = LeaveNode(@, node)]
dfs_neighbors(graph, neighbor_order, neighbors, k, path, st) ==
    IF k > Len(neighbors) THEN st
    ELSE dfs_neighbors(graph, neighbor_order, neighbors, k + 1, path,
                       dfs(graph, neighbor_order, neighbors[k], path, st))

\* "for node in graph: if node not in visited: dfs(node, [])"
RECURSIVE detect_roots(_, _, _, _, _)
detect_roots(graph, neighbor_order, roots, k, st) ==
    IF k > Len(roots) THEN st
    ELSE detect_roots(graph, neighbor_order, roots, k + 1,
             IF roots[k] \in st.visited THEN st
             ELSE dfs(graph, neighbor_order, roots[k], << >>, st))

_detect_cycles(graph, key_order, neighbor_order) ==
    detect_roots(graph, neighbor_order, key_order, 1,
                 [visited |-> {}, rec_stack |-> {}, cycles |-> << >>]).cycles

CyclesInit ==
    /\ JobIdle /\ ParserIdle /\ QueryIdle /\ FilterIdle /\ ComplexityIdle /\ AnalysisIdle
    /\ dep_graph \in {g \in SUBSET (Vertices \X Vertices) : Cardinality(g) <= MaxEdges}
    /\ circular_dependencies = << >>
    /\ cycles_pc = "graph"

\* analyze_dependencies: "circular_dependencies" = _detect_cycles(dep_graph)
DetectCycles ==
    /\ cycles_pc = "graph"
    /\ \E key_order \in Perms(GraphKeys(dep_graph)),
          neighbor_order \in NeighborOrdersOf(dep_graph, Vertices) :
         circular_dependencies' = _detect_cycles(dep_graph, key_order, neighbor_order)
    /\ cycles_pc' = "analyzed"
    /\ UNCHANGED <<dep_graph, jobVars, parserVars, queryVars, filterVars,
                   complexityVars, analysisVars>>

CyclesNext == DetectCycles

CyclesSpec == CyclesInit /\ [][CyclesNext]_vars

\* ============================================================== query_graph
\* KnowledgeGraphService.query_graph against the store.  The repository holds
\* the nodes 1..kg_store.nodes, the odd ones of type "function" and the even
\* ones of type "class"; the store answers a select in id order.
MaxStoredRelationships == 2

NodeLimit == 1000
QueryBatchSize == 50

\* repository sizes and relationship endpoints around the batch size and the
\* node limit
RepositorySizes == {0, 1, QueryBatchSize + 1, NodeLimit + 2}
EndpointIds == {1, 2, QueryBatchSize + 1, NodeLimit + 2}

NodeType(id) == IF id % 2 = 1 THEN "function" ELSE "class"

Range(seq) == {seq[k] : k \in DOMAIN seq}

\* ids of a set of integers in ascending order
RECURSIVE Ascending(_)
Ascending(S) ==
    IF S = {} THEN << >>
    ELSE LET least == CHOOSE x \in S : \A y \in S : x <= y
         IN  <<least>> \o Ascending(S \ {least})

\* the node select: repository and node-type filters, then .limit(1000)
SelectNodes(store, q) ==
    LET matching == {id \in 1..store.nodes :
                        q.node_types = {} \/ NodeType(id) \in q.node_types}
        n == Cardinality(matching)
        \* ids in ascending order: the k-th matching id
        kth(k) == IF q.node_types = {} THEN k
                  ELSE IF "function" \in q.node_types /\ "class" \in q.node_types THEN k
                  ELSE IF "function" \in q.node_types THEN 2 * k - 1 ELSE 2 * k
    IN  [k \in 1..Min(n, NodeLimit) |-> kth(k)]

\* node_ids[i:i + batch_size] for i in range(0, len(node_ids), batch_size)
BatchNodeIds(node_ids, k) ==
    SubSeq(node_ids, (k - 1) * QueryBatchSize + 1,
           Min(k * QueryBatchSize, Len(node_ids)))

QueryBatches(node_ids) ==
    [k \in 1..NumBatches(Len(node_ids), QueryBatchSize) |-> BatchNodeIds(node_ids, k)]

\* the relationship select of one batch: source or target among the ids of
\* the batch, and the relationship-type filter when the query has one
SelectRelationships(store, q, batch_node_ids) ==
    LET ids == Range(batch_node_ids)
    IN  Ascending({r.id : r \in {x \in store.relationships :
                       /\ x.source_node_id \in ids \/ x.target_node_id \in ids
                       /\ q.relationship_types = {}
                            \/ x.relationship_type \in q.relationship_types}})

RelationshipRow(store, id) == CHOOSE r \in store.relationships : r.id = id

\* relationships.extend(batch_result.data) over the batches
RECURSIVE FetchBatches(_, _, _, _)
FetchBatches(store, q, batches, k) ==
    IF k > Len(batches) THEN << >>
    ELSE SelectRelationships(store, q, batches[k]) \o FetchBatches(store, q, batches, k + 1)

\* a result that keeps every row the batches returned
KeepDuplicates(rel_ids) == rel_ids

\* "Remove duplicate relationships": the first occurrence of each id stays
RECURSIVE RemoveDuplicates(_)
RemoveDuplicates(rel_ids) ==
    IF rel_ids = << >> THEN << >>
    ELSE LET init == RemoveDuplicates(SubSeq(rel_ids, 1, Len(rel_ids) - 1))
             last == rel_ids[Len(rel_ids)]
         IN  IF last \in Range(init) THEN init ELSE Append(init, last)

\* a result that keeps every relationship that touches a selected node
TouchesSelected(rel, node_id_set) ==
    rel.source_node_id \in node_id_set \/ rel.target_node_id \in node_id_set

\* "only include those between our selected nodes"
BetweenSelected(rel, node_id_set) ==
    rel.source_node_id \in node_id_set /\ rel.target_node_id \in node_id_set

query_graph(store, q) ==
    LET node_ids == SelectNodes(store, q)
        fetched == FetchBatches(store, q, QueryBatches(node_ids), 1)
        unique == RemoveDuplicates(fetched)
        rows == [k \in DOMAIN unique |-> RelationshipRow(store, unique[k])]
        Kept(rel) == BetweenSelected(rel, Range(node_ids))
        relationships == SelectSeq(rows, Kept)
    IN  [returned |-> TRUE, nodes |-> node_ids, relationships |-> relationships,
         total_nodes |-> Len(node_ids), total_relationships |-> Len(relationships)]

\* the relationship rows of the store: ids 1..n, each between two nodes of
\* the repository
RelationshipTypeOf(id) == IF id % 2 = 1 THEN "calls" ELSE "imports"

StoredRelationships(size) ==
    LET ends == {e \in EndpointIds : e <= size}
        rows(n, ep) == {[id |-> id, source_node_id |-> ep[id][1],
                         target_node_id |-> ep[id][2],
                         relationship_type |-> RelationshipTypeOf(id)] : id \in 1..n}
    IN  UNION {{rows(n, ep) : ep \in [1..n -> ends \X ends]}
                   : n \in 0..MaxStoredRelationships}

QueryInit ==
    /\ JobIdle /\ ParserIdle /\ CyclesIdle /\ FilterIdle /\ ComplexityIdle /\ AnalysisIdle
    /\ \E size \in RepositorySizes :
         \E rels \in StoredRelationships(size) :
            kg_store = [nodes |-> size, relationships |-> rels]
    /\ query \in [node_types : {{}, {"function"}},
                  relationship_types : {{}, {"calls"}}]
    /\ query_batches = << >>
    /\ query_result = NoResult

QueryGraph ==
    /\ ~query_result.returned
    /\ query_result' = query_graph(kg_store, query)
    /\ query_batches' = QueryBatches(SelectNodes(kg_store, query))
    /\ UNCHANGED <<kg_store, query, jobVars, parserVars, cycleVars, filterVars,
                   complexityVars, analysisVars>>

QueryNext == QueryGraph

QuerySpec == QueryInit /\ [][QueryNext]_vars

\* =========================================================== file discovery
\* TreeSitterParser.should_parse_file, FileFilter.should_parse_file and the
\* per-file body of KnowledgeGraphService._read_repository_files.  A path is
\* its directory components and its file name, relative or absolute; the
\* string tests of the code are tabulated for the names under test.
MaxDirs == 2

DirNames == {"src", "node_modules", "venv", "Build", "tests"}
FileNames == {"main.py", "test_api.py", "index.js", "vite.config.js", "notes.md"}

\* str.lower()
Lower(part) == IF part = "Build" THEN "build" ELSE part

\* Path(file_path).suffix.lower()
Suffix(name) ==
    CASE name \in {"main.py", "test_api.py"} -> ".py"
      [] name \in {"index.js", "vite.config.js"} -> ".js"
      [] name = "notes.md" -> ".md"
      [] OTHER -> ""

\* detect_language: the language whose file_extensions hold the suffix
detect_language(name) ==
    CASE Suffix(name) \in {".py", ".pyi"} -> "python"
      [] Suffix(name) \in {".js", ".jsx", ".mjs"} -> "javascript"
      [] OTHER -> "none"

\* "'test' in part.lower()"
ContainsTest(part) == Lower(part) \in {"tests", "test_api.py"}

\* FileFilter._get_default_excluded_directories
ExcludedDirectories ==
    {"node_modules", "__pycache__", ".pytest_cache", ".tox", "venv", ".venv", "env",
     ".env", "virtualenv", "site-packages", "vendor", "third_party",
     "build", "dist", "out", "output", "target", "bin", "obj",
     ".next", ".nuxt", "public", "static", "assets",
     ".vscode", ".idea", ".vs", ".sublime-text", ".atom",
     ".git", ".svn", ".hg", ".bzr", ".DS_Store", "Thumbs.db",
     ".cache", "cache", ".tmp", "tmp", "temp",
     "_build", "docs/_build", "site", "_site",
     "test_data", "testdata", "fixtures", "samples",
     "generated", "gen", "auto", "autogen"}

\* extensions of FileFilter._get_default_excluded_extensions the names reach
ExcludedExtensions == {".yaml", ".yml", ".json", ".toml", ".md", ".txt", ".rst", ".lock", ".log"}

\* common_code_extensions of TreeSitterParser.should_parse_file
CommonCodeExtensions ==
    {".py", ".js", ".ts", ".jsx", ".tsx", ".java", ".cpp", ".c", ".h", ".hpp",
     ".cs", ".php", ".rb", ".go", ".rs", ".swift", ".kt", ".scala", ".sh", ".pl"}

\* problematic_dirs of the Python branch
ProblematicDirs == {"__pycache__", ".git", "node_modules", ".pytest_cache", "dist", "build"}

\* directories named as test or example directories by the Python branch
TestDirs == {"tests", "testing", "examples", "example", "demo", "demos"}

FilterMaxFileSizeKb == 500
PythonMaxFileSizeKb == 500
BytesPerKb == 1024

\* path.parts: the root of an absolute path is a part of its own
PathParts(f) ==
    (IF f.absolute THEN <<"/">> ELSE << >>) \o f.dirs \o <<f.name>>

\* FileFilter._is_in_excluded_directory: a part whose lower case is in the
\* excluded set (no part under test has a leading dot before an excluded name)
_is_in_excluded_directory(f) ==
    \E k \in DOMAIN PathParts(f) : Lower(PathParts(f)[k]) \in ExcludedDirectories

\* FileFilter._matches_excluded_pattern on a file name or on the whole path:
\* of the names under test only vite.config.js matches a pattern ("vite*.js"),
\* and no whole path under test matches one
_matches_excluded_pattern(name) == name = "vite.config.js"

\* FileFilter.should_parse_file
FileFilter_should_parse_file(f) ==
    /\ ~(f.size_bytes > FilterMaxFileSizeKb * BytesPerKb)
    /\ ~_is_in_excluded_directory(f)
    /\ Suffix(f.name) \notin ExcludedExtensions
    /\ ~_matches_excluded_pattern(f.name)

\* "f'/{prob_dir}/' in path_str or path_str.endswith(f'/{prob_dir}')" on the
\* lower-cased path string: a problematic directory counts only with a slash
\* before it, so not as the first component of a relative path
InProblematicDir(f) ==
    \/ \E k \in DOMAIN f.dirs :
           Lower(f.dirs[k]) \in ProblematicDirs /\ (f.absolute \/ k > 1)
    \/ Lower(f.name) \in ProblematicDirs /\ (f.absolute \/ Len(f.dirs) > 0)

\* is_test_file of the Python branch
is_test_file(f) ==
    \/ ContainsTest(f.name)
    \/ \E k \in DOMAIN PathParts(f) : ContainsTest(PathParts(f)[k])
    \/ \E k \in DOMAIN PathParts(f) : Lower(PathParts(f)[k]) \in TestDirs

\* TreeSitterParser.should_parse_file
should_parse_file(f) ==
    LET language == detect_language(f.name)
    IN  IF language = "none"
        THEN Suffix(f.name) \in CommonCodeExtensions /\ FileFilter_should_parse_file(f)
        ELSE IF language = "python"
        THEN /\ ~(f.size_bytes # 0 /\ f.size_bytes > PythonMaxFileSizeKb * BytesPerKb)
             /\ ~InProblematicDir(f)
             \* every priority branch includes a file that is no test file
             /\ ~is_test_file(f)
        ELSE FileFilter_should_parse_file(f)

\* _read_repository_files, one file of the walk.  The handlers of a failed
\* stat and of a failed open call safe_logfire_warning, a name the module does
\* not import: the NameError leaves the loop and _read_repository_files
\* re-raises it, so no file of the repository is returned ("raised").  The
\* filter is not consulted when the stat fails.
read_repository_file(f, req) ==
    LET language == detect_language(f.name)
        outcome ==
            IF ~f.stat_ok THEN "raised"
            ELSE IF ~should_parse_file(f) THEN "smart_filtered"
            ELSE IF f.size_bytes > req.max_file_size_kb * BytesPerKb THEN "size_filtered"
            ELSE IF language = "none" THEN "language_filtered"
            ELSE IF req.languages # {} /\ language \notin req.languages
                 THEN "language_filtered"
            ELSE IF ~f.readable THEN "raised"
            ELSE "included"
    IN  [done |-> TRUE, should_parse |-> f.stat_ok /\ should_parse_file(f),
         outcome |-> outcome]

\* requested ceilings, and file sizes at and just above each of them
Ceilings == {100, 500, 1000}
FileSizes == {0} \cup {c * BytesPerKb : c \in Ceilings} \cup {c * BytesPerKb + 1 : c \in Ceilings}

FilterInit ==
    /\ JobIdle /\ ParserIdle /\ CyclesIdle /\ QueryIdle /\ ComplexityIdle /\ AnalysisIdle
    /\ file \in [absolute : BOOLEAN, dirs : SeqsUpTo(DirNames, MaxDirs),
                 name : FileNames, size_bytes : FileSizes,
                 stat_ok : BOOLEAN, readable : BOOLEAN]
    /\ request \in [languages : {{}, {"python"}}, max_file_size_kb : Ceilings]
    /\ discovery = NoDiscovery

ReadRepositoryFile ==
    /\ ~discovery.done
    /\ discovery' = read_repository_file(file, request)
    /\ UNCHANGED <<file, request, jobVars, parserVars, cycleVars, queryVars,
                   complexityVars, analysisVars>>

FilterNext == ReadRepositoryFile

FilterSpec == FilterInit /\ [][FilterNext]_vars

\* ========================================================= complexity score
\* TreeSitterParser.calculate_complexity_score on the source code of a class
\* or function node.  The content is given by its words after
\* content.lower().split(), as the number of times each word occurs.
MaxWords == 50

Words == {"if", "While", "x"}
Languages == {"python", "go", "ruby", "yaml"}

\* language_configs[language].complexity_enabled
complexity_enabled(lang) == lang \in {"python", "go", "ruby"}

\* complexity_keywords.get(language, [])
complexity_keywords(lang) ==
    CASE lang = "python" -> {"if", "elif", "else", "for", "while", "try", "except", "with"}
      [] lang = "go" -> {"if", "else", "for", "switch", "case", "select"}
      [] OTHER -> {}

\* content.lower() on a word
LowerWord(word) == IF word = "While" THEN "while" ELSE word

\* words.count(keyword) summed over the keywords
RECURSIVE SumOver(_, _)
SumOver(S, count) ==
    IF S = {} THEN 0
    ELSE LET x == CHOOSE y \in S : TRUE IN count[x] + SumOver(S \ {x}, count)

KeywordCount(lang, words) ==
    SumOver({w \in DOMAIN words : LowerWord(w) \in complexity_keywords(lang)}, words)

Max(a, b) == IF a > b THEN a ELSE b

\* a scale without the clamp
NormalizeUnclamped(complexity) == complexity \div 5 + 1

\* "return min(max(complexity // 5 + 1, 1), 10)"
Normalize(complexity) == Min(Max(complexity \div 5 + 1, 1), 10)

calculate_complexity_score(words, lang) ==
    IF ~complexity_enabled(lang) THEN 1
    ELSE IF complexity_keywords(lang) = {} THEN 1
    ELSE Normalize(1 + KeywordCount(lang, words))

ComplexityInit ==
    /\ JobIdle /\ ParserIdle /\ CyclesIdle /\ QueryIdle /\ FilterIdle /\ AnalysisIdle
    /\ node_language \in Languages
    /\ body = [w \in Words |-> 0]
    /\ complexity_score = None

\* the parser scores the source code of the node it is about to emit
CalculateComplexity ==
    /\ complexity_score = None
    /\ complexity_score' = calculate_complexity_score(body, node_language)
    /\ UNCHANGED <<node_language, body, jobVars, parserVars, cycleVars, queryVars, filterVars, analysisVars>>

\* the same node with one more word in its source code
AddWord ==
    /\ complexity_score # None
    /\ SumOver(Words, body) < MaxWords
    /\ \E w \in Words :
         /\ body' = [body EXCEPT ![w] = @ + 1]
         /\ complexity_score' = calculate_complexity_score(body', node_language)
    /\ UNCHANGED <<node_language, jobVars, parserVars, cycleVars, queryVars, filterVars, analysisVars>>

ComplexityNext == CalculateComplexity \/ AddWord

ComplexitySpec == ComplexityInit /\ [][ComplexityNext]_vars


\* ================================================================= hotspots
\* KnowledgeGraphService._analyze_hotspots on the node and relationship lists
\* analyze_repository hands it.  A node is its name and its complexity_score
\* (None when unset); node k of the list has id k, and its complexity_score is
\* set by its id through a profile chosen with the input.
MaxHotspotRelationships == 2

\* "if score > 10" and "hotspots[:20]"
HotspotThreshold == 10
TopHotspots == 20

\* weights of the score
IncomingWeight == 2
ComplexityWeight == 3

HotspotSizes == {0, 1, TopHotspots, TopHotspots + 1, TopHotspots + 2}
HotspotEndpoints == {1, 2, TopHotspots + 3}
ComplexityScores == {None, 3, 4}

\* "complexity": node.complexity_score or 1
ComplexityOrOne(score) == IF score = None THEN 1 ELSE score

\* node_metrics after the two loops: the relationships of the list whose
\* source (target) is the node, counted with their multiplicity
OutgoingRefs(relationships, id) ==
    Cardinality({k \in DOMAIN relationships : relationships[k].source_node_id = id})
IncomingRefs(relationships, id) ==
    Cardinality({k \in DOMAIN relationships : relationships[k].target_node_id = id})

NodeMetrics(nodes, relationships) ==
    [k \in DOMAIN nodes |->
        [name |-> nodes[k].name,
         incoming_refs |-> IncomingRefs(relationships, nodes[k].id),
         outgoing_refs |-> OutgoingRefs(relationships, nodes[k].id),
         complexity |-> ComplexityOrOne(nodes[k].complexity_score)]]

HotspotScore(metrics) ==
    metrics.incoming_refs * IncomingWeight + metrics.outgoing_refs
        + metrics.complexity * ComplexityWeight

WithScore(metrics) ==
    [name |-> metrics.name, incoming_refs |-> metrics.incoming_refs,
     outgoing_refs |-> metrics.outgoing_refs, complexity |-> metrics.complexity,
     hotspot_score |-> HotspotScore(metrics)]

IsHotspot(entry) == entry.hotspot_score > HotspotThreshold

\* hotspots.sort(key=hotspot_score, reverse=True): descending and stable, so
\* entries of equal score keep the order of the node list
InsertByScore(sorted, entry) ==
    LET before == Cardinality({k \in DOMAIN sorted :
                                   sorted[k].hotspot_score >= entry.hotspot_score})
    IN  SubSeq(sorted, 1, before) \o <<entry>> \o SubSeq(sorted, before + 1, Len(sorted))

RECURSIVE SortByScore(_)
SortByScore(entries) ==
    IF entries = << >> THEN << >>
    ELSE InsertByScore(SortByScore(SubSeq(entries, 1, Len(entries) - 1)),
                       entries[Len(entries)])

\* a result that is not cut
AllHotspots(sorted) == sorted

\* hotspots[:20]
Top(sorted) == SubSeq(sorted, 1, Min(TopHotspots, Len(sorted)))

_analyze_hotspots(nodes, relationships) ==
    LET metrics == NodeMetrics(nodes, relationships)
        scored == [k \in DOMAIN metrics |-> WithScore(metrics[k])]
    IN  [returned |-> TRUE, hotspots |-> Top(SortByScore(SelectSeq(scored, IsHotspot)))]

HotspotInit ==
    /\ JobIdle /\ LibIdle /\ IngestIdle /\ SinkIdle /\ FindNodeIdle /\ IntraFileIdle /\ ExcerptIdle
    /\ \E size \in HotspotSizes, profile \in [0..1 -> ComplexityScores] :
         hot_nodes = [k \in 1..size |->
                         [id |-> k, name |-> k, complexity_score |-> profile[k % 2]]]
    /\ hot_relationships \in
           SeqsUpTo([source_node_id : HotspotEndpoints, target_node_id : HotspotEndpoints],
                    MaxHotspotRelationships)
    /\ hotspots = [returned |-> FALSE, hotspots |-> << >>]

\* analyze_repository with AnalysisType.HOTSPOTS
AnalyzeHotspots ==
    /\ ~hotspots.returned
    /\ hotspots' = _analyze_hotspots(hot_nodes, hot_relationships)
    /\ UNCHANGED <<hot_nodes, hot_relationships, jobVars, libVars, ingestVars, sinkVars, findVars, intraVars, excerptVars>>

HotspotNext == AnalyzeHotspots

HotspotSpec == HotspotInit /\ [][HotspotNext]_vars

\* =========================================================== the store sink
\* _store_nodes_and_relationships as _stream_store_file_data calls it
\* (batch_size 25) and as a bulk caller does (batch_size 50).  A row is its
\* position in the list handed in; the store answers each insert with data,
\* with no data, or by raising.
MaxSinkBatches == 3

\* list lengths at and next to the multiples of the streaming batch size
SinkSizes ==
    {0, 1} \cup {k * StreamBatchSize + d : k \in 1..(MaxSinkBatches - 1), d \in {0, 1}}

SinkRows(n) == [k \in 1..n |-> k]

\* rows[i:i + batch_size] of the k-th value of range(0, len(rows), batch_size)
BatchRows(rows, batch_size, k) ==
    SubSeq(rows, (k - 1) * batch_size + 1, Min(k * batch_size, Len(rows)))

\* a loop that stops at the first insert that fails
SubmittedUntilFailure(table, rows, batch_size, outcomes) ==
    LET failed == {k \in DOMAIN outcomes : outcomes[k] # "ok"}
        last == IF failed = {} THEN NumBatches(Len(rows), batch_size)
                ELSE CHOOSE k \in failed : \A m \in failed : k <= m
    IN  [k \in 1..last |->
            [table |-> table, rows |-> BatchRows(rows, batch_size, k),
             outcome |-> outcomes[k]]]

\* the inserts of one of the two loops: one per batch, whatever the outcome
\* of the batches before ("continue" in the handler of a batch)
Submitted(table, rows, batch_size, outcomes) ==
    [k \in 1..NumBatches(Len(rows), batch_size) |->
        [table |-> table, rows |-> BatchRows(rows, batch_size, k),
         outcome |-> outcomes[k]]]

SinkInit ==
    /\ JobIdle /\ LibIdle /\ HotspotIdle /\ IngestIdle /\ FindNodeIdle /\ IntraFileIdle /\ ExcerptIdle
    /\ sink_rows \in [nodes : {SinkRows(n) : n \in SinkSizes},
                      relationships : {SinkRows(n) : n \in SinkSizes}]
    /\ sink_batch_size \in {StreamBatchSize, BuilderBatchSize}
    /\ sink_batches = << >>
    /\ sink_result = NoSinkResult

StoreNodesAndRelationships ==
    /\ ~sink_result.returned
    /\ \E node_out \in [1..NumBatches(Len(sink_rows.nodes), sink_batch_size)
                          -> BatchOutcomes],
          rel_out \in [1..NumBatches(Len(sink_rows.relationships), sink_batch_size)
                         -> BatchOutcomes] :
         LET r == _store_nodes_and_relationships(Len(sink_rows.nodes),
                      Len(sink_rows.relationships), sink_batch_size, node_out, rel_out)
         IN  /\ sink_batches' =
                    Submitted("nodes", sink_rows.nodes, sink_batch_size, node_out)
                    \o Submitted("relationships", sink_rows.relationships,
                                 sink_batch_size, rel_out)
             /\ sink_result' = [returned |-> TRUE, raised |-> r.raised,
                                nodes |-> r.nodes, relationships |-> r.relationships]
    /\ UNCHANGED <<sink_rows, sink_batch_size, jobVars, libVars, hotspotVars, ingestVars, findVars, intraVars, excerptVars>>

SinkNext == StoreNodesAndRelationships

SinkSpec == SinkInit /\ [][SinkNext]_vars

\* ======================================================== _find_node_at_line
\* GraphBuilder._find_node_at_line on a node list and a line number.  Node k
\* of the list has id k; a line bound that is not set is None.
MaxLineNodes == 3
MaxLine == 3

\* nodes under test: each bound unset or a line, the end not before the start
LineBounds ==
    {b \in [line_start : 0..MaxLine, line_end : 0..MaxLine] :
        b.line_start = None \/ b.line_end = None \/ b.line_start <= b.line_end}

\* the first branch of the loop: both bounds set and the line within them
WithinBounds(node, line) ==
    /\ node.line_start # None /\ node.line_end # None
    /\ node.line_start <= line /\ line <= node.line_end

\* the elif branch: the start set and not after the line
StartsBefore(node, line) == node.line_start # None /\ node.line_start <= line

\* max(candidates, key=line_start or 0): the first of the candidates with the
\* greatest line_start
_find_node_at_line(nodes, line) ==
    LET candidates == {k \in DOMAIN nodes :
                          WithinBounds(nodes[k], line) \/ StartsBefore(nodes[k], line)}
        latest == CHOOSE k \in candidates :
                      \A m \in candidates :
                          \/ nodes[k].line_start > nodes[m].line_start
                          \/ nodes[k].line_start = nodes[m].line_start /\ k <= m
    IN  IF candidates = {} THEN None ELSE latest

FindNodeInit ==
    /\ JobIdle /\ LibIdle /\ HotspotIdle /\ IngestIdle /\ SinkIdle /\ IntraFileIdle /\ ExcerptIdle
    /\ line_nodes \in SeqsUpTo(LineBounds, MaxLineNodes)
    /\ line_num \in 1..MaxLine
    /\ node_at_line = [returned |-> FALSE, node |-> None]

\* the intra-file pass asks for the node at the line of a match
FindNodeAtLine ==
    /\ ~node_at_line.returned
    /\ node_at_line' = [returned |-> TRUE, node |-> _find_node_at_line(line_nodes, line_num)]
    /\ UNCHANGED <<line_nodes, line_num, jobVars, libVars, hotspotVars, ingestVars,
                   sinkVars, intraVars, excerptVars>>

FindNodeNext == FindNodeAtLine

FindNodeSpec == FindNodeInit /\ [][FindNodeNext]_vars

\* ===================================================== parsing Python lines
\* parse_file on a Python file given by its lines.  The string operations of
\* the line loop are tabulated for the lines under test.
RepoPaths == <<"a.py", "b.py">>

\* the branch of the line loop line.strip() selects
LineKindOf(text) ==
    CASE text \in {"class Foo:", "class Baz(Foo):", "class Foo(Foo):"} -> "class"
      [] text \in {"    def bar(self):", "def baz():"} -> "def"
      [] text = "from a import Foo" -> "import"
      [] OTHER -> "other"

\* line.split()[1].split('(')[0].split(':')[0] of a class line,
\* line.split()[1].split('(')[0] of a def line, line.split()[1] of an import
DeclaredName(text) ==
    CASE text \in {"class Foo:", "class Foo(Foo):"} -> "Foo"
      [] text = "class Baz(Foo):" -> "Baz"
      [] text = "    def bar(self):" -> "bar"
      [] text = "def baz():" -> "baz"
      [] text = "from a import Foo" -> "a"
      [] OTHER -> ""

NodeTypeOfLine(text) ==
    CASE LineKindOf(text) = "class" -> "class"
      [] LineKindOf(text) = "def" -> "function"
      [] OTHER -> "import"

\* confidence_score of the relationships
Certain == "1.0"
InheritsConfidence == "0.9"
CallsConfidence == "0.8"
CrossFileImportConfidence == "0.7"
UsesConfidence == "0.6"

NamedNode(id, node_type, name, file_path, line_start) ==
    [id |-> id, node_type |-> node_type, name |-> name, file_path |-> file_path,
     line_start |-> line_start, line_end |-> None]

Edge(source_node_id, target_node_id, relationship_type, confidence_score) ==
    [source_node_id |-> source_node_id, target_node_id |-> target_node_id,
     relationship_type |-> relationship_type, confidence_score |-> confidence_score]

\* parse_file on a Python file, which goes to _parse_object_oriented_file: the
\* file node (id <<f, 0>>), then for line i (id <<f, i>>) a class or function
\* node under a contains edge from the file node, or an import node under an
\* imports edge from the file node
RECURSIVE ParseNamedLines(_, _, _, _, _)
ParseNamedLines(f, lines, i, nodes, relationships) ==
    IF i > Len(lines) THEN [nodes |-> nodes, relationships |-> relationships]
    ELSE IF LineKindOf(lines[i]) = "other"
         THEN ParseNamedLines(f, lines, i + 1, nodes, relationships)
    ELSE ParseNamedLines(f, lines, i + 1,
             Append(nodes, NamedNode(<<f, i>>, NodeTypeOfLine(lines[i]),
                                     DeclaredName(lines[i]), RepoPaths[f], i)),
             Append(relationships,
                    Edge(<<f, FileNodeId>>, <<f, i>>,
                         IF LineKindOf(lines[i]) = "import" THEN ImportEdge ELSE "contains",
                         Certain)))

parse_file(f, lines) ==
    ParseNamedLines(f, lines, 1,
        <<NamedNode(<<f, FileNodeId>>, "file", RepoPaths[f], RepoPaths[f], None)>>, << >>)

\* ====================================================== the intra-file pass
\* GraphBuilder._build_intra_file_relationships, and build_relationships as a
\* whole, on the nodes parse_file extracted from one Python file.  The matches
\* of the relationship patterns are tabulated for the lines under test; no
\* match spans two lines.
MaxFileLines == 3

PyLineTexts ==
    {"class Foo:", "class Foo(Foo):", "class Baz(Foo):", "    def bar(self):",
     "def baz():", "        self.bar()"}

\* relationship_patterns["python"]: three patterns for calls, two for
\* inherits, none for implements
PatternCount(language, kind) ==
    CASE language = "python" /\ kind = "calls" -> 3
      [] language = "python" /\ kind = "inherits" -> 2
      [] OTHER -> 0

\* group(1) of the matches re.finditer(pattern, line) yields, in order
PatternMatches(kind, p, text) ==
    CASE kind = "calls" /\ p = 1 /\ text \in {"class Foo(Foo):"} -> <<"Foo">>
      [] kind = "calls" /\ p = 1 /\ text = "class Baz(Foo):" -> <<"Baz">>
      [] kind = "calls" /\ p = 1 /\ text \in {"    def bar(self):", "        self.bar()"}
             -> <<"bar">>
      [] kind = "calls" /\ p = 1 /\ text = "def baz():" -> <<"baz">>
      [] kind = "calls" /\ p = 2 /\ text = "        self.bar()" -> <<"bar">>
      [] kind = "calls" /\ p = 3 /\ text = "        self.bar()" -> <<"self">>
      [] kind = "inherits" /\ text \in {"class Foo(Foo):", "class Baz(Foo):"} -> <<"Foo">>
      [] OTHER -> << >>

\* the matches of one pattern over the content: the line of each
\* (content[:match.start()].count('\n') + 1) and its group(1)
RECURSIVE ContentMatches(_, _, _, _)
ContentMatches(kind, p, lines, i) ==
    IF i > Len(lines) THEN << >>
    ELSE LET here == PatternMatches(kind, p, lines[i])
         IN  [k \in DOMAIN here |-> [line_num |-> i, name |-> here[k]]]
             \o ContentMatches(kind, p, lines, i + 1)

\* the matches of all the patterns of a kind, pattern by pattern
RECURSIVE KindMatches(_, _, _, _)
KindMatches(language, kind, lines, p) ==
    IF p > PatternCount(language, kind) THEN << >>
    ELSE ContentMatches(kind, p, lines, 1) \o KindMatches(language, kind, lines, p + 1)

\* nodes_by_name.get(name) of {node.name: node for node in file_nodes}: the
\* last node of that name, None when there is none
NodeByName(nodes, name) ==
    LET named == {k \in DOMAIN nodes : nodes[k].name = name}
    IN  IF named = {} THEN None ELSE CHOOSE k \in named : \A m \in named : k >= m

\* "if caller and callee and caller.id != callee.id"
CallsEdge(nodes, caller, callee) ==
    caller # None /\ callee # None /\ nodes[caller].id # nodes[callee].id

\* "if child and parent and child.node_type == NodeType.CLASS"
InheritsEdge(nodes, child, parent) ==
    child # None /\ parent # None /\ nodes[child].node_type = "class"

\* "if implementer and interface"
ImplementsEdge(nodes, implementer, interface) == implementer # None /\ interface # None

EdgesOfKind(nodes, lines, language, kind) ==
    LET matches == KindMatches(language, kind, lines, 1)
        subject(mt) == _find_node_at_line(nodes, mt.line_num)
        object(mt) == NodeByName(nodes, mt.name)
        emitted(mt) ==
            CASE kind = "calls" -> CallsEdge(nodes, subject(mt), object(mt))
              [] kind = "inherits" -> InheritsEdge(nodes, subject(mt), object(mt))
              [] OTHER -> ImplementsEdge(nodes, subject(mt), object(mt))
        confidence == IF kind = "calls" THEN CallsConfidence ELSE InheritsConfidence
        kept == SelectSeq(matches, emitted)
    IN  [k \in DOMAIN kept |->
            Edge(nodes[subject(kept[k])].id, nodes[object(kept[k])].id, kind, confidence)]

_build_intra_file_relationships(nodes, lines, language) ==
    EdgesOfKind(nodes, lines, language, "calls")
    \o EdgesOfKind(nodes, lines, language, "inherits")
    \o EdgesOfKind(nodes, lines, language, "implements")

\* "import_name in node.file_path" and "node.name == import_name" of the
\* cross-file pass, for the names under test
ImportMatches(import_name, node) ==
    \/ node.name = import_name
    \/ import_name = "a" /\ node.file_path = "a.py"

\* the imports part of _build_cross_file_relationships: for every import node
\* an edge to the first file node its name matches
CrossFileImports(all_nodes) ==
    LET imports == SelectSeq(all_nodes, LAMBDA n : n.node_type = "import")
        targets(imp) == {k \in DOMAIN all_nodes :
                            /\ all_nodes[k].node_type = "file"
                            /\ ImportMatches(imp.name, all_nodes[k])}
        first(imp) == CHOOSE k \in targets(imp) : \A m \in targets(imp) : k <= m
        found == SelectSeq(imports, LAMBDA imp : targets(imp) # {})
    IN  [k \in DOMAIN found |->
            Edge(found[k].id, all_nodes[first(found[k])].id, ImportEdge,
                 CrossFileImportConfidence)]

\* keys of nodes_by_file: the file paths of the nodes, in the order in which
\* each is first met
RECURSIVE PathsInOrder(_, _, _)
PathsInOrder(nodes, i, paths) ==
    IF i > Len(nodes) THEN paths
    ELSE PathsInOrder(nodes, i + 1,
             IF \E k \in DOMAIN paths : paths[k] = nodes[i].file_path THEN paths
             ELSE Append(paths, nodes[i].file_path))

NodesOfFile(nodes, path) == SelectSeq(nodes, LAMBDA n : n.file_path = path)

\* file_contents.get(file_path, ""): the lines of the file, none when the
\* dict has no such key
ContentOf(file_contents, path) ==
    LET at == {f \in DOMAIN file_contents : RepoPaths[f] = path}
    IN  IF at = {} THEN << >> ELSE file_contents[CHOOSE f \in at : TRUE]

\* the first loop of build_relationships: the intra-file pass for every file
\* of the nodes that has content and a node that is no file node
RECURSIVE IntraFilePass(_, _, _, _)
IntraFilePass(nodes, file_contents, paths, k) ==
    IF k > Len(paths) THEN << >>
    ELSE LET of_file == NodesOfFile(nodes, paths[k])
             lines == ContentOf(file_contents, paths[k])
             skipped == lines = << >> \/ \A m \in DOMAIN of_file : IsFileNode(of_file[m])
         IN  (IF skipped THEN << >>
              ELSE _build_intra_file_relationships(of_file, lines, "python"))
             \o IntraFilePass(nodes, file_contents, paths, k + 1)

\* "node.name in line", for the names and the lines under test
NameInLine(name, text) ==
    CASE name = "a" -> TRUE
      [] name = "Foo" -> text \in {"class Foo:", "class Foo(Foo):", "class Baz(Foo):",
                                   "from a import Foo"}
      [] name = "bar" -> text \in {"    def bar(self):", "        self.bar()"}
      [] name = "Baz" -> text = "class Baz(Foo):"
      [] name = "baz" -> text = "def baz():"
      [] OTHER -> FALSE

\* the uses part of _build_cross_file_relationships for one file: for every
\* node of another file whose name occurs in the content, an edge from the
\* node at the first line that holds the name and has a node at it
UsesOfFile(all_nodes, lines, path) ==
    LET of_file == NodesOfFile(all_nodes, path)
        referenced(node, i) ==
            NameInLine(node.name, lines[i]) /\ _find_node_at_line(of_file, i) # None
        refers(node) ==
            /\ node.file_path # path
            /\ \E i \in DOMAIN lines : referenced(node, i)
        first(node) == CHOOSE i \in DOMAIN lines :
                           referenced(node, i) /\ \A j \in 1..(i - 1) : ~referenced(node, j)
        used == SelectSeq(all_nodes, refers)
    IN  IF of_file = << >> THEN << >>
        ELSE [k \in DOMAIN used |->
                 Edge(of_file[_find_node_at_line(of_file, first(used[k]))].id, used[k].id,
                      "uses", UsesConfidence)]

RECURSIVE CrossFileUses(_, _, _)
CrossFileUses(all_nodes, file_contents, f) ==
    IF f > Len(file_contents) THEN << >>
    ELSE UsesOfFile(all_nodes, file_contents[f], RepoPaths[f])
         \o CrossFileUses(all_nodes, file_contents, f + 1)

_build_cross_file_relationships(all_nodes, file_contents) ==
    CrossFileImports(all_nodes) \o CrossFileUses(all_nodes, file_contents, 1)

\* the containment pass over the files of the nodes
RECURSIVE ContainmentPass(_, _, _)
ContainmentPass(nodes, paths, k) ==
    IF k > Len(paths) THEN << >>
    ELSE LET edges == _build_containment_relationships(NodesOfFile(nodes, paths[k]))
         IN  [m \in DOMAIN edges |->
                 Edge(edges[m].source_node_id, edges[m].target_node_id,
                      edges[m].relationship_type, Certain)]
             \o ContainmentPass(nodes, paths, k + 1)

\* GraphBuilder.build_relationships on the node list it is given: the
\* intra-file pass over the files of the nodes, the cross-file pass, the
\* containment pass.  With an empty node list no pass has anything to
\* iterate over and the result is empty.
GraphBuilder_build_relationships(nodes, file_contents) ==
    LET paths == PathsInOrder(nodes, 1, << >>)
    IN  IntraFilePass(nodes, file_contents, paths, 1)
        \o _build_cross_file_relationships(nodes, file_contents)
        \o ContainmentPass(nodes, paths, 1)

IntraFileInit ==
    /\ JobIdle /\ LibIdle /\ HotspotIdle /\ IngestIdle /\ SinkIdle /\ FindNodeIdle /\ ExcerptIdle
    /\ py_lines \in SeqsUpTo(PyLineTexts, MaxFileLines)
    /\ py_nodes = << >>
    /\ intra_relationships = << >>
    /\ built_relationships = << >>
    /\ intra_pc = "file"

\* parse_file on the file
ParsePythonFile ==
    /\ intra_pc = "file"
    /\ py_nodes' = parse_file(1, py_lines).nodes
    /\ intra_pc' = "parsed"
    /\ UNCHANGED <<py_lines, intra_relationships, built_relationships, jobVars, libVars,
                   hotspotVars, ingestVars, sinkVars, findVars, excerptVars>>

\* build_relationships called with the nodes of the file and its content
BuildIntraFile ==
    /\ intra_pc = "parsed"
    /\ intra_relationships' = _build_intra_file_relationships(py_nodes, py_lines, "python")
    /\ built_relationships' = GraphBuilder_build_relationships(py_nodes, <<py_lines>>)
    /\ intra_pc' = "built"
    /\ UNCHANGED <<py_lines, py_nodes, jobVars, libVars, hotspotVars, ingestVars,
                   sinkVars, findVars, excerptVars>>

IntraFileNext == ParsePythonFile \/ BuildIntraFile

IntraFileSpec == IntraFileInit /\ [][IntraFileNext]_vars

\* ===================================================== ingesting Python files
\* parse_repository from the parse-and-store loop on, for a repository of two
\* Python files, with a store that accepts every batch.  A file is the
\* sequence of its lines; the string operations of the parser and of the
\* Graph Builder are tabulated for the lines under test.
MaxRepoLines == 3

\* the lines each file is made of
RepoLineTexts ==
    <<{"class Foo:", "    def bar(self):", "        pass"},
      {"from a import Foo", "class Baz(Foo):", "    pass"}>>

\* the two-file mini-repo
MiniRepo ==
    <<<<"class Foo:", "    def bar(self):", "        pass">>,
      <<"from a import Foo", "class Baz(Foo):", "    pass">>>>

RepoFile(f) == SeqsUpTo(RepoLineTexts[f], MaxRepoLines)

IngestInit ==
    /\ JobIdle /\ LibIdle /\ HotspotIdle /\ SinkIdle /\ FindNodeIdle /\ IntraFileIdle /\ ExcerptIdle
    /\ repo \in [1..Len(RepoPaths) -> UNION {RepoFile(f) : f \in 1..Len(RepoPaths)}]
    /\ \A f \in 1..Len(RepoPaths) : repo[f] \in RepoFile(f)
    /\ parse_request \in [enable_cross_file_refs : BOOLEAN]
    /\ kg_graph = [nodes |-> << >>, relationships |-> << >>]
    /\ builder_calls = << >>
    /\ repo_idx = 0
    /\ ingest_pc = "loop"

\* one iteration of the parse-and-store loop: the nodes and relationships of
\* the file are stored before the next file is taken
IngestFile ==
    /\ ingest_pc = "loop"
    /\ repo_idx < Len(repo)
    /\ LET f == repo_idx + 1
           parsed == parse_file(f, repo[f])
       IN  /\ kg_graph' = [nodes |-> kg_graph.nodes \o parsed.nodes,
                        relationships |-> kg_graph.relationships \o parsed.relationships]
           /\ repo_idx' = f
           /\ ingest_pc' = IF f = Len(repo) THEN "build" ELSE "loop"
    /\ UNCHANGED <<repo, parse_request, builder_calls, jobVars, libVars, hotspotVars, sinkVars, findVars, intraVars, excerptVars>>

\* after the loop: build_relationships is called with an empty node list,
\* whatever the request says, and its edges are stored when there are any
IngestBuild ==
    /\ ingest_pc = "build"
    /\ LET nodes == << >>
           additional_relationships == GraphBuilder_build_relationships(nodes, repo)
       IN  /\ builder_calls' = Append(builder_calls, nodes)
           /\ kg_graph' = [kg_graph EXCEPT !.relationships = @ \o additional_relationships]
    /\ ingest_pc' = "done"
    /\ UNCHANGED <<repo, parse_request, repo_idx, jobVars, libVars, hotspotVars, sinkVars, findVars, intraVars, excerptVars>>

IngestNext == IngestFile \/ IngestBuild

IngestSpec == IngestInit /\ [][IngestNext]_vars

\* ===================================================== source excerpts
\* The source_code that _parse_object_oriented_file and _parse_procedural_file
\* capture for a class or a function: the declaration line, then the lines of
\* the body up to a ceiling.  A file is a declaration on its first line, then
\* body lines, then possibly a line that ends the body.

MaxBodyLines == 101

ClassCeiling == 100
FunctionCeiling == 50
ProceduralCeiling == 100

ObjectOrientedLanguages == {"python"}
ProceduralLanguages == {"c", "go", "rust"}

ObjectOrientedMarker == "    # ... (truncated)"
ProceduralMarker == "    // ... (truncated)"

BodyLine == "    pass"
ClosingBrace == "}"
DedentedLine == "x = 1"

\* the declaration lines the parser of each language recognises
Declarations(language) ==
    CASE language = "python" -> {"class Foo:", "def foo():"}
      [] language = "c" -> {"int foo() {"}
      [] language = "go" -> {"func foo() {"}
      [] language = "rust" -> {"fn foo() {"}

\* len(line) - len(line.lstrip())
IndentOf(text) == IF text = BodyLine THEN 4 ELSE 0

\* line.count('{') and line.count('}'); no line of these files holds two braces
OpenBraces(text) == IF text \in {"int foo() {", "func foo() {", "fn foo() {"} THEN 1 ELSE 0

CloseBraces(text) == IF text = ClosingBrace THEN 1 ELSE 0

\* line.startswith('class ')
StartsWithClass(text) == text = "class Foo:"

\* source_lines after the loop has appended the lines before line stop of the
\* file (counted from 1): the loop breaks, the marker appended, as soon as
\* len(source_lines) exceeds the ceiling
CappedExcerpt(lines, stop, ceiling, marker) ==
    IF stop - 2 >= ceiling
    THEN SubSeq(lines, 1, ceiling + 1) \o <<marker>>
    ELSE SubSeq(lines, 1, stop - 1)

\* the line on which "while j < len(lines)" of the class and the function
\* branch of _parse_object_oriented_file stops when no ceiling is hit: the
\* first non-blank line indented no more than the declaration, or the end
BodyStop(lines, indent_level) ==
    LET ends == {j \in 2..Len(lines) : lines[j] # "" /\ IndentOf(lines[j]) <= indent_level}
    IN  IF ends = {} THEN Len(lines) + 1
        ELSE CHOOSE j \in ends : \A k \in ends : j <= k

ObjectOrientedBody(lines, ceiling) ==
    CappedExcerpt(lines, BodyStop(lines, IndentOf(lines[1])), ceiling, ObjectOrientedMarker)

\* brace_count when line j is reached: the balance of the lines before it
BraceCount(lines, j) ==
    Cardinality({k \in 1..(j - 1) : OpenBraces(lines[k]) = 1})
        - Cardinality({k \in 1..(j - 1) : CloseBraces(lines[k]) = 1})

\* the line on which "while j < len(lines) and brace_count > 0" of the
\* function branches of _parse_procedural_file stops when no ceiling is hit
BalancedStop(lines) ==
    LET ends == {j \in 2..Len(lines) : BraceCount(lines, j) <= 0}
    IN  IF ends = {} THEN Len(lines) + 1
        ELSE CHOOSE j \in ends : \A k \in ends : j <= k

ProceduralBody(lines) ==
    CappedExcerpt(lines, BalancedStop(lines), ProceduralCeiling, ProceduralMarker)

\* source_lines of the node declared on the first line of the file
SourceExcerpt(language, lines) ==
    IF language \in ObjectOrientedLanguages
    THEN ObjectOrientedBody(lines, IF StartsWithClass(lines[1]) THEN ClassCeiling
                                   ELSE FunctionCeiling)
    ELSE ProceduralBody(lines)

\* the line that ends a body in the language
BodyEnd(language) ==
    IF language \in ObjectOrientedLanguages THEN DedentedLine ELSE ClosingBrace

ExcerptFile(declaration, n, ending) ==
    <<declaration>> \o [k \in 1..n |-> BodyLine] \o ending

ExcerptInit ==
    /\ JobIdle /\ LibIdle /\ HotspotIdle /\ IngestIdle /\ SinkIdle /\ FindNodeIdle /\ IntraFileIdle
    /\ excerpt_language \in ObjectOrientedLanguages \cup ProceduralLanguages
    /\ \E declaration \in Declarations(excerpt_language), n \in 0..MaxBodyLines,
          ending \in {<< >>, <<BodyEnd(excerpt_language)>>} :
            excerpt_file = ExcerptFile(declaration, n, ending)
    /\ excerpt_source = << >>

\* the class or function branch taken on the first line of the file
CaptureExcerpt ==
    /\ excerpt_file # << >>
    /\ excerpt_source = << >>
    /\ excerpt_source' = SourceExcerpt(excerpt_language, excerpt_file)
    /\ UNCHANGED <<excerpt_language, excerpt_file, jobVars, libVars, hotspotVars, ingestVars,
                   sinkVars, findVars, intraVars>>

ExcerptNext == CaptureExcerpt

ExcerptSpec == ExcerptInit /\ [][ExcerptNext]_vars

\* ---------------------------------------------------------------- claims
HasTerminalEvent == \E i \in DOMAIN events : events[i].type \in Terminal

JobStarted == pc # "idle"

LastEvent == events[Len(events)]

\* the events the job and the cancel endpoint emitted, without the test
\* updates of the socket-test endpoint
IsJobEvent(e) == e # TestProgress
JobEvents == SelectSeq(events, IsJobEvent)
LastJobEvent == JobEvents[Len(JobEvents)]

\* C1: the parsing_status of the Source row moves only along
\* pending -> processing -> completed or pending -> processing -> failed; it
\* is processing before it becomes completed or failed, and once completed or
\* failed it does not change again.
LifecycleSteps == {<<"none", "pending">>, <<"pending", "processing">>,
                   <<"processing", "completed">>, <<"processing", "failed">>}
C1_SourceLifecycle ==
    [][source.parsing_status' # source.parsing_status
         => <<source.parsing_status, source.parsing_status'>> \in LifecycleSteps]_vars

\* C2: a job cancelled between two files of the parse-and-store loop ends
\* with its Source row failed and parsing_error "Parsing was cancelled by
\* user", and no update event follows the cancel request on the channel.
NoUpdateAfterCancel ==
    \A i, j \in DOMAIN JobEvents :
        (i < j /\ JobEvents[i].type = "cancel") => JobEvents[j].type # "update"
C2_CancelBetweenFiles ==
    first_cancel_at = "between_files" =>
        /\ NoUpdateAfterCancel
        /\ pc = "finished" =>
              /\ source.parsing_status = "failed"
              /\ source.parsing_error = CancelledByUser

\* C2, with the store taken into account: a job cancelled between two files
\* of the parse-and-store loop emits no update event after the cancel request
\* and ends with its Source row failed and parsing_error "Parsing was
\* cancelled by user", or, when the store refused that update, with the row
\* as it was inserted.
CancelledRow ==
    _update_kg_source_status(_create_kg_source, "failed", CancelledByUser, -1, -1, TRUE)
C2_CancelBetweenFilesStoreAccepting ==
    first_cancel_at = "between_files" =>
        /\ NoUpdateAfterCancel
        /\ pc = "finished" => source \in {CancelledRow, _create_kg_source}
C2_Witness ==
    /\ first_cancel_at = "between_files"
    /\ pc = "finished"
    /\ source.parsing_error = CancelledByUser

\* C3: once a complete, error or cancel event has been emitted for the
\* parsing id, no further event of any kind is emitted for it.
C3_TerminalEventLast == [][HasTerminalEvent => events' = events]_vars

\* C4: every started parse job eventually emits a terminal event (complete,
\* error or cancel) on its progress channel.
C4_TerminalEventEventually == JobStarted ~> HasTerminalEvent
C4_Witness == pc = "finished" /\ HasTerminalEvent /\ LastEvent.type = "error"

\* C5: whenever parse_repository has returned or been cancelled, no temporary
\* clone directory of the job remains.
C5_NoTempDirAfterReturn == (result.returned \/ TaskDone) => ~temp_dir_exists

\* C6: once an external cancel request has marked the running task for
\* cancellation, the cancellation probe of the job raises.
C6_ProbeRaisesAfterCancel ==
    (must_cancel /\ pc = "loop_emit")
        => check_cancellation(svc_active_parsing_tasks, SID, task)

\* C7: while parse_repository runs, the registry consulted by
\* KnowledgeGraphService.cancel_parsing and by the probe holds the job's task
\* under its Source id, and cancel_parsing(source id) returns true.
C7_RegistryHoldsRunningJob ==
    /\ pc \in ServiceSuspended => SID \in svc_active_parsing_tasks
    /\ svc_cancel_response # "none" => svc_cancel_response = "true"

\* C8: whatever files fail to parse, a job that is not cancelled processes
\* every file and ends with the Source completed and a complete event last.
C8_FileFailureNeverAborts ==
    (pc = "finished" /\ total_files > 0 /\ first_cancel_at = "none") =>
        /\ file_idx = total_files
        /\ source.parsing_status = "completed"
        /\ LastJobEvent.type = "complete"

\* C9: a file one of whose batch inserts failed (raised or returned no data)
\* is recorded in failed_files with the error "Storage failed".
C9_StorageFailureRecorded ==
    last_store_failed =>
        \E i \in DOMAIN failed_files :
            failed_files[i] = [file_path |-> file_idx, error |-> StorageFailed]

\* C10: the node and relationship totals carried by an update event and
\* written to the Source row at completion equal the rows the store accepted
\* (read while the repository has not been deleted).
C10_TotalsEqualAcceptedRows ==
    /\ (/\ pc \in {"loop_emit", "final_emit"}
        /\ LastJobEvent.type = "update"
        /\ repository_exists) =>
          /\ LastJobEvent.nodes_created = stored_nodes
          /\ LastJobEvent.relationships_created = stored_relationships
    /\ (source.parsing_status = "completed" /\ repository_exists) =>
          /\ source.total_nodes_created = stored_nodes
          /\ source.total_relationships_created = stored_relationships


\* C11: the batch inserts follow the file walk: every insert for a file
\* precedes every insert for a later file, within a file every node batch
\* precedes every relationship batch, and no per-file insert follows an
\* insert of Graph Builder edges.
C11_InsertsFollowFileWalk ==
    \A i, j \in DOMAIN inserts :
        i < j =>
            /\ (inserts[i].file # GraphBuilderEdges /\ inserts[j].file # GraphBuilderEdges)
                   => inserts[i].file <= inserts[j].file
            /\ inserts[i].file = inserts[j].file
                   => ~(inserts[i].table = "relationships" /\ inserts[j].table = "nodes")
            /\ inserts[i].file = GraphBuilderEdges => inserts[j].file = GraphBuilderEdges
C11_Witness ==
    /\ pc = "finalize"
    /\ \E i, j, k \in DOMAIN inserts :
          /\ i < j /\ j < k
          /\ inserts[i] = [file |-> 1, table |-> "nodes"]
          /\ inserts[j] = [file |-> 1, table |-> "relationships"]
          /\ inserts[k] = [file |-> 3, table |-> "nodes"]

\* C12: in the parse-and-store loop, once the loop has taken a file that
\* brings the count of processed files to a multiple of 5 or that is the last
\* file, an update event with the running totals and the current file has
\* been emitted for that count, whatever happened to the file.
C12_ProgressEveryFiveAndAtEnd ==
    (/\ pc \in {"loop", "loop_emit", "build"}
     /\ file_idx > 0
     /\ ProgressDue(file_idx, total_files))
        => \E i \in DOMAIN events :
               /\ events[i].type = "update"
               /\ events[i].processed_files = file_idx
               /\ events[i].nodes_created = total_nodes_created
               /\ events[i].relationships_created = total_relationships_created
               /\ events[i].message = "file"


\* C13: once a file is parsed, and after the containment pass, every
\* non-file node, import nodes included, is the target of exactly one
\* contains relationship, whose source is a node of the same file; and both
\* endpoints of every relationship are nodes extracted.
NodeIds == {kg_nodes[k].id : k \in DOMAIN kg_nodes}
ContainsInto(id) ==
    {k \in DOMAIN kg_relationships :
        /\ kg_relationships[k].relationship_type = "contains"
        /\ kg_relationships[k].target_node_id = id}
C13_OneContainsPerNode ==
    parser_pc \in {"parsed", "built"} =>
        /\ \A k \in DOMAIN kg_nodes :
               IsNonFileNode(kg_nodes[k]) =>
                   /\ Cardinality(ContainsInto(kg_nodes[k].id)) = 1
                   /\ \A r \in ContainsInto(kg_nodes[k].id) :
                          kg_relationships[r].source_node_id \in NodeIds
        /\ \A r \in DOMAIN kg_relationships :
               /\ kg_relationships[r].source_node_id \in NodeIds
               /\ kg_relationships[r].target_node_id \in NodeIds


\* the graph holds a directed cycle that visits exactly the vertices of S
HasCycleOn(graph, S) ==
    /\ S # {}
    /\ \E q \in Perms(S) :
           /\ \A k \in 1..(Len(q) - 1) : <<q[k], q[k + 1]>> \in graph
           /\ <<q[Len(q)], q[1]>> \in graph
IsDAG(graph) == \A S \in SUBSET Vertices : ~HasCycleOn(graph, S)
VertexSet(cycle) == {cycle[k] : k \in DOMAIN cycle}

\* C14: for a dependency graph that is a DAG, _detect_cycles returns the
\* empty list, whatever the order of the keys and of the neighbours.
C14_NoCycleInDAG ==
    (cycles_pc = "analyzed" /\ IsDAG(dep_graph)) => circular_dependencies = << >>
C14_Witness ==
    /\ cycles_pc = "analyzed"
    /\ dep_graph = {<<1, 2>>, <<1, 3>>, <<2, 3>>}
    /\ circular_dependencies = << >>

\* C15: for every directed cycle of the dependency graph, _detect_cycles
\* reports a cycle with the same vertex set, whatever the order of the keys
\* and of the neighbours and whatever other cycles the graph holds.
C15_EveryCycleReported ==
    cycles_pc = "analyzed" =>
        \A S \in SUBSET Vertices :
            HasCycleOn(dep_graph, S) =>
                \E k \in DOMAIN circular_dependencies :
                    VertexSet(circular_dependencies[k]) = S


\* C16: query_graph returns at most 1000 nodes, and both endpoints of every
\* relationship it returns are among the nodes it returns.
C16_QueryBounded ==
    query_result.returned =>
        /\ query_result.total_nodes <= NodeLimit
        /\ Len(query_result.nodes) = query_result.total_nodes
        /\ \A k \in DOMAIN query_result.relationships :
               /\ query_result.relationships[k].source_node_id \in Range(query_result.nodes)
               /\ query_result.relationships[k].target_node_id \in Range(query_result.nodes)
C16_Witness ==
    /\ query_result.returned
    /\ query_result.total_nodes = NodeLimit
    /\ kg_store.nodes > NodeLimit
    /\ query_result.total_relationships = 1
    /\ \E r \in kg_store.relationships :
           r.source_node_id = 1 /\ r.target_node_id = NodeLimit + 2

\* C17: in a query_graph result each relationship id appears at most once,
\* also for a relationship whose endpoints lie in different batches; the
\* selected node ids are split into consecutive batches of at most 50 ids,
\* each selected id in exactly one batch.
RECURSIVE Flatten(_)
Flatten(seqs) ==
    IF seqs = << >> THEN << >> ELSE seqs[1] \o Flatten(SubSeq(seqs, 2, Len(seqs)))
C17_QueryDeduplicated ==
    query_result.returned =>
        /\ \A a, b \in DOMAIN query_result.relationships :
               query_result.relationships[a].id = query_result.relationships[b].id => a = b
        /\ \A k \in DOMAIN query_batches :
               Len(query_batches[k]) \in 1..QueryBatchSize
        /\ Flatten(query_batches) = query_result.nodes
C17_Witness ==
    /\ query_result.returned
    /\ Len(query_batches) > 1
    /\ \E k \in DOMAIN query_result.relationships :
           /\ query_result.relationships[k].source_node_id = 1
           /\ query_result.relationships[k].target_node_id = QueryBatchSize + 1
           /\ query_result.relationships[k].source_node_id \in Range(query_batches[1])
           /\ query_result.relationships[k].target_node_id \in Range(query_batches[2])


\* C18: should_parse_file rejects every path one of whose directory
\* components is in the excluded-directory set, for files of every language
\* and for relative paths as well as absolute ones.
C18_ExcludedDirectoryRejected ==
    (/\ discovery.done
     /\ \E k \in DOMAIN file.dirs : file.dirs[k] \in ExcludedDirectories)
        => ~discovery.should_parse

\* C19: in file discovery a file larger than max_file_size_kb * 1024 bytes of
\* the request is never read, and a file at or below that size is not
\* rejected for its size: it is read when it would be read at size 0.
C19_SizeCeilingOfRequest ==
    discovery.done =>
        /\ file.size_bytes > request.max_file_size_kb * BytesPerKb
               => discovery.outcome # "included"
        /\ (/\ file.size_bytes <= request.max_file_size_kb * BytesPerKb
            /\ read_repository_file([file EXCEPT !.size_bytes = 0], request).outcome
                   = "included")
               => discovery.outcome = "included"


\* C20: the complexity score of a node is min(10, max(1, c div 5 + 1)) with
\* c = 1 + the number of control-keyword words of its source, so it is an
\* integer in 1..10, and it never decreases when a word is added.
ControlKeywordWords ==
    SumOver({w \in Words : LowerWord(w) \in complexity_keywords(node_language)}, body)
C20_ScoreFormula ==
    complexity_score # None =>
        /\ complexity_score = Min(10, Max(1, (1 + ControlKeywordWords) \div 5 + 1))
        /\ complexity_score \in 1..10
C20_ScoreNeverDecreases ==
    [][complexity_score # None => complexity_score' >= complexity_score]_vars
C20_ComplexityScore == []C20_ScoreFormula /\ C20_ScoreNeverDecreases
C20_Witness ==
    /\ node_language = "python"
    /\ complexity_score = 10
    /\ body["if"] + body["While"] = MaxWords


\* C21: the hotspot analysis scores a node 2 * incoming + outgoing +
\* 3 * complexity, and returns at most 20 entries, each of a distinct node with
\* score > 10, in non-increasing score order; it returns every node with
\* score > 10 when there are at most 20, and no node left out scores higher
\* than a node returned.
ScoreOf(k) ==
    2 * IncomingRefs(hot_relationships, k) + OutgoingRefs(hot_relationships, k)
        + 3 * ComplexityOrOne(hot_nodes[k].complexity_score)
Returned == {hotspots.hotspots[i].name : i \in DOMAIN hotspots.hotspots}
C21_HotspotsTopTwenty ==
    hotspots.returned =>
        LET out == hotspots.hotspots
            hot == {k \in DOMAIN hot_nodes : ScoreOf(k) > 10}
        IN  /\ Len(out) = Min(20, Cardinality(hot))
            /\ \A i \in DOMAIN out :
                   /\ out[i].name \in hot
                   /\ out[i].hotspot_score = ScoreOf(out[i].name)
            /\ \A i, j \in DOMAIN out :
                   /\ i < j => out[i].hotspot_score >= out[j].hotspot_score
                   /\ out[i].name = out[j].name => i = j
            /\ \A k \in hot \ Returned :
                   \A i \in DOMAIN out : ScoreOf(k) <= out[i].hotspot_score
C21_Witness ==
    /\ hotspots.returned
    /\ Len(hotspots.hotspots) = 20
    /\ Len(hot_nodes) = 22
    /\ hotspots.hotspots[1].hotspot_score = 16
    /\ hotspots.hotspots[1].name = 2
    /\ \E k \in DOMAIN hot_nodes : ScoreOf(k) = 12 /\ k \notin Returned

\* the rows persisted hold an edge of the type and confidence between a node
\* of the first type and name and a node of the second type and name
Persisted(source_type, source_name, relationship_type, confidence_score,
          target_type, target_name) ==
    \E r \in DOMAIN kg_graph.relationships :
    \E a, b \in DOMAIN kg_graph.nodes :
        /\ kg_graph.relationships[r] =
               Edge(kg_graph.nodes[a].id, kg_graph.nodes[b].id, relationship_type, confidence_score)
        /\ kg_graph.nodes[a].node_type = source_type /\ kg_graph.nodes[a].name = source_name
        /\ kg_graph.nodes[b].node_type = target_type /\ kg_graph.nodes[b].name = target_name

\* C22: once the two-file mini-repo is ingested, the rows persisted include
\* a.py contains Foo, Foo contains bar, b.py contains Baz, b.py imports a,
\* Baz inherits Foo with confidence 0.9, and an imports edge with confidence
\* 0.7 from the import node a to the file node a.py.
C22_MiniRepoEdges ==
    (ingest_pc = "done" /\ repo = MiniRepo) =>
        /\ Persisted("file", "a.py", "contains", "1.0", "class", "Foo")
        /\ Persisted("class", "Foo", "contains", "1.0", "function", "bar")
        /\ Persisted("file", "b.py", "contains", "1.0", "class", "Baz")
        /\ Persisted("file", "b.py", "imports", "1.0", "import", "a")
        /\ Persisted("class", "Baz", "inherits", "0.9", "class", "Foo")
        /\ Persisted("import", "a", "imports", "0.7", "file", "a.py")

\* C23: with enable_cross_file_refs false the Graph Builder is not invoked,
\* and the rows persisted are the per-file output of the parser.
C23_BuilderOnlyWhenEnabled ==
    (ingest_pc = "done" /\ ~parse_request.enable_cross_file_refs) =>
        /\ builder_calls = << >>
        /\ \A r \in DOMAIN kg_graph.relationships :
               kg_graph.relationships[r].confidence_score = "1.0"

\* C24: the sink submits the nodes, and the relationships, in consecutive
\* batches of at most batch_size rows (25 when streaming, 50 in bulk) that
\* together hold every row exactly once and in order; every batch is
\* submitted whatever the outcome of the batches before it, and the call
\* returns without raising when batches fail.
BatchesOf(table) == SelectSeq(sink_batches, LAMBDA b : b.table = table)
RowsOf(batches) == Flatten([k \in DOMAIN batches |-> batches[k].rows])
C24_BatchesCoverRows ==
    sink_result.returned =>
        /\ sink_batch_size \in {25, 50}
        /\ \A k \in DOMAIN sink_batches : Len(sink_batches[k].rows) \in 1..sink_batch_size
        /\ RowsOf(BatchesOf("nodes")) = sink_rows.nodes
        /\ RowsOf(BatchesOf("relationships")) = sink_rows.relationships
        /\ ~sink_result.raised
C24_Witness ==
    /\ sink_result.returned
    /\ ~sink_result.raised
    /\ sink_batch_size = 25
    /\ Len(sink_rows.nodes) = 51
    /\ Len(sink_batches) = 5
    /\ sink_batches[1].outcome = "raise"
    /\ sink_batches[2].outcome = "nodata"
    /\ sink_batches[3].rows = <<51>>
    /\ sink_batches[3].outcome = "ok"
    /\ sink_batches[4].table = "relationships"
    /\ sink_result.nodes = 1

\* C25: _find_node_at_line returns a node that contains the line: its
\* line_start is known and not after the line and, when its line_end is known
\* too, the line is not after its line_end; among these nodes it returns one
\* of latest line_start, and it returns None exactly when there is none.
ContainsLine(k) ==
    /\ line_nodes[k].line_start # None
    /\ line_nodes[k].line_start <= line_num
    /\ line_nodes[k].line_end # None => line_num <= line_nodes[k].line_end
C25_NodeContainsLine ==
    node_at_line.returned =>
        LET containing == {k \in DOMAIN line_nodes : ContainsLine(k)}
        IN  IF containing = {} THEN node_at_line.node = None
            ELSE /\ node_at_line.node \in containing
                 /\ \A m \in containing :
                        line_nodes[m].line_start <= line_nodes[node_at_line.node].line_start

\* C26: every edge of the intra-file pass (calls, inherits, implements) has
\* both ends among the nodes of the file, and its source is not its target.
FileNodeIds == {py_nodes[k].id : k \in DOMAIN py_nodes}
C26_NoSelfLoop ==
    intra_pc = "built" =>
        \A r \in DOMAIN intra_relationships :
            /\ intra_relationships[r].relationship_type \in {"calls", "inherits", "implements"}
            /\ intra_relationships[r].source_node_id \in FileNodeIds
            /\ intra_relationships[r].target_node_id \in FileNodeIds
            /\ intra_relationships[r].source_node_id # intra_relationships[r].target_node_id

\* the lines of an excerpt that come from the file, the marker left out
SourceLineCount(source_lines) ==
    Cardinality({k \in 1..Len(source_lines) :
                    source_lines[k] \notin {ObjectOrientedMarker, ProceduralMarker}})

MarkerCount(source_lines) == Len(source_lines) - SourceLineCount(source_lines)

\* C27: the excerpt of a class holds at most 100 lines of the file and the
\* excerpt of a function at most 50, in the object-oriented and in the
\* procedural parser alike, and no more than one truncation marker is appended
C27_ExcerptCeilings ==
    excerpt_source # << >> =>
        /\ SourceLineCount(excerpt_source)
              <= (IF StartsWithClass(excerpt_file[1]) THEN ClassCeiling ELSE FunctionCeiling)
        /\ MarkerCount(excerpt_source) <= 1

\* C28: the registry of the API holds the parsing id exactly while the job's
\* task exists and has not finished: the entry is there from the start of the
\* job, gone after every end of the task, and a cancel request leaves the
\* registry as it is
C28_EntryWhileTaskRuns == (PID \in active_parsing_tasks) <=> (task = "pending")

C28_CancelKeepsRegistry ==
    [][cancel_requests' # cancel_requests
          => active_parsing_tasks' = active_parsing_tasks]_vars

C28_RegistryFollowsTask == []C28_EntryWhileTaskRuns /\ C28_CancelKeepsRegistry

\* parsed_files of the repository statistics and of the result:
\* processed_files - len(failed_files)
parsed_files == processed_files - Len(failed_files)

\* C29: every progress event carries processed_files <= total_files, the
\* counter of the loop never exceeds the number of files of the walk (a file
\* is counted once, whatever happens in its iteration), and once the loop is
\* over and the statistics are written parsed_files + failed_files = total_files
C29_FilesCountedOnce ==
    /\ \A i \in DOMAIN events : events[i].processed_files <= events[i].total_files
    /\ processed_files <= total_files
    /\ pc \in {"finalize", "final_progress", "final_emit"}
          => parsed_files + Len(failed_files) = total_files

\* C30: when parse_repository has returned and a Source row was inserted, the
\* row is completed or failed, not pending or processing
C30_ReturnedSourceSettled ==
    (result.returned /\ source # NoSource)
        => source.parsing_status \in {"completed", "failed"}

=============================================================================
